---- MODULE Spec2Model ----
(***************************************************************************)
(* State-machine model of the hub75 driver: the display engine             *)
(* (src/src/display.rs), its frame buffers (src/src/frame_buffer.rs),      *)
(* colours (src/src/color.rs) and pin groups (src/src/pins.rs).            *)
(***************************************************************************)
EXTENDS Integers, Naturals, Sequences, FiniteSets, TLC

(***************************************************************************)
(* Panel parameters (the const generics of Hub75Display) and the bounds of *)
(* the exploration.                                                        *)
(***************************************************************************)
WIDTH == 2
HEIGHT == 4
COLOR_BITS == 2
\* largest number of drawing / configuration calls in one behaviour
MaxOps == 2
\* largest number of GPIO writes that fail in one behaviour
MaxFailures == 2
\* largest number of render_frame calls in one behaviour
MaxPasses == 1
\* bit planes explored by the timing specification (planes 0..MaxPlane)
MaxPlane == 4
\* largest number of passes one display_frame call makes
MaxFrames == 2
\* largest number of calls in one behaviour of the buffer specification
MaxDrawOps == 3
\* tallest panel the construction specification builds (HEIGHT of 0..MaxPanelHeight)
MaxPanelHeight == 68
\* longest data source of the animation specification, in frames
MaxAnimFrames == 2
\* polls of an animation that has answered Done
MaxDone == 2
\* deepest colour of the colour specification
MaxColorBits == 8

\* calls on the buffer of the fill specification after its construction
MaxFillOps == 3

\* calls of the draw-target specification
MaxDrawIterOps == 3

\* widest panel of the slide specification
MaxSlideWidth == 5
\* deepest colour of the fade specification: (1 << BITS) - 1 does not fit u8
\* from 8 bits on
MaxFadeBits == 7

\* Brightness::default, Hub75Display::new and refresh_task's pause after an error
DefaultBrightness == 128
DefaultRefreshIntervalNs == 100000
RetryDelayNs == 1000000

VARIABLES
  pins,                 \* Hub75Pins: levels of the rgb, address and control lines
  front_buffer,         \* Hub75Display.front_buffer (pixels[y][x])
  back_buffer,          \* Hub75Display.back_buffer
  current_row,          \* Hub75Display.current_row
  current_bit_plane,    \* Hub75Display.current_bit_plane
  brightness,           \* Hub75Display.brightness.level (u8)
  refresh_interval_ns,  \* Hub75Display.refresh_interval_ns (u32, two 16-bit limbs)
  double_buffering,     \* Hub75Display.double_buffering
  pc,                   \* position of the running render_frame ("idle" when none runs)
  bit_plane,            \* render_frame's loop variable bit_plane
  row,                  \* render_frame's loop variable row
  bit_data,             \* render_bit_plane's local bit_data
  col,                  \* index of the next element of bit_data to shift out
  result,               \* what the last render_frame call returned
  task,                 \* "direct" calls, or the never-returning "refresh_task"
  trace,                \* GPIO writes and sleeps since the latest pass or display_frame began
  op,                   \* the last engine operation called, with its outcome
  ops_left,             \* drawing / configuration calls still explored
  fail_left,            \* GPIO failures still injected
  pass_left,            \* direct render_frame calls still explored
  frames_left,          \* display_frame: iterations of its loop still to run
  oe_note,              \* the latest write issued to OE: "ok", "fault" when it failed,
                        \* "direct" for the enable_output of a direct render_bit_plane call
  call,                 \* last call of a pure function: [fn, args, ret]
  sched,                \* the tasks sharing the engine behind a lock: the lock's holder
                        \* and the position of the refresh and the drawing task
  anim                  \* the Animation a caller polls (animation.rs), "none" before new

vars ==
  << pins, front_buffer, back_buffer, current_row, current_bit_plane, brightness,
     refresh_interval_ns, double_buffering, pc, bit_plane, row, bit_data, col,
     result, task, trace, op, ops_left, fail_left, pass_left, frames_left,
     oe_note, call, sched, anim >>

engine_vars ==
  << pins, front_buffer, back_buffer, current_row, current_bit_plane, brightness,
     refresh_interval_ns, double_buffering, pc, bit_plane, row, bit_data, col,
     result, task, trace, op, ops_left, fail_left, pass_left, frames_left,
     oe_note, sched, anim >>

render_vars ==
  << pc, bit_plane, row, bit_data, col, result, task, trace, fail_left, pass_left,
     frames_left, oe_note, current_row, current_bit_plane, pins >>

Rows == 0 .. (HEIGHT - 1)
Cols == 0 .. (WIDTH - 1)
HalfHeight == HEIGHT \div 2

(***************************************************************************)
(* u32 arithmetic.  A u32 is a pair <<hi, lo>> of 16-bit limbs, because    *)
(* the products the engine forms do not fit the checker's integers.        *)
(***************************************************************************)
Limb == 2 ^ 16

U32(n) == << n \div Limb, n % Limb >>

\* v * k in u32, for a factor k < 2^15: the wrapped product and whether it overflowed
MulU32(v, k) ==
  LET lo == v[2] * k
      hi == v[1] * k + (lo \div Limb)
  IN  [ val |-> << hi % Limb, lo % Limb >>, overflow |-> hi >= Limb ]

\* v / d in u32, for a divisor 0 < d < 2^15
DivU32(v, d) ==
  LET r == v[1] % d
  IN  << v[1] \div d, (r * Limb + v[2]) \div d >>

\* whether u32 x >= u32 y
GeqU32(x, y) == x[1] > y[1] \/ (x[1] = y[1] /\ x[2] >= y[2])

\* x - y for x >= y (the high limb of x may hold a carry)
SubU32(x, y) ==
  IF x[2] >= y[2]
    THEN << x[1] - y[1], x[2] - y[2] >>
    ELSE << x[1] - y[1] - 1, x[2] + Limb - y[2] >>

\* bit i of a u32
BitU32(v, i) == IF i >= 16 THEN (v[1] \div (2 ^ (i - 16))) % 2 ELSE (v[2] \div (2 ^ i)) % 2

\* a / b in u32 for b > 0, by binary long division from bit i downwards;
\* q is the quotient so far and r the remainder so far
RECURSIVE DivLoop(_, _, _, _, _)
DivLoop(a, b, i, q, r) ==
  IF i < 0
    THEN q
    ELSE LET lo == 2 * r[2] + BitU32(a, i)
             r2 == << 2 * r[1] + (lo \div Limb), lo % Limb >>
             q2 == IF i >= 16 THEN << q[1] + 2 ^ (i - 16), q[2] >>
                              ELSE << q[1], q[2] + 2 ^ i >>
         IN  IF GeqU32(r2, b)
               THEN DivLoop(a, b, i - 1, q2, SubU32(r2, b))
               ELSE DivLoop(a, b, i - 1, q, r2)

DivU32Full(a, b) == DivLoop(a, b, 31, << 0, 0 >>, << 0, 0 >>)

Ok(v) == [ ok |-> TRUE, val |-> v, err |-> "" ]
Err(e) == [ ok |-> FALSE, val |-> << >>, err |-> e ]

(***************************************************************************)
(* Hub75Color<BITS> (color.rs): a record [r, g, b] of u8 channels.         *)
(***************************************************************************)
\* (1 << BITS) - 1 as u8; constant evaluation rejects BITS >= 8, where 1 << BITS
\* overflows u8, so a colour depth of 8 or more does not build once new() is used
MAX_VALUE == 2 ^ COLOR_BITS - 1

Color(r, g, b) == [ r |-> r, g |-> g, b |-> b ]

Clamp(v) == IF v > MAX_VALUE THEN MAX_VALUE ELSE v

New(r, g, b) == Color(Clamp(r), Clamp(g), Clamp(b))

\* Hub75Color::<bits>::new: the channels clamped to (1 << bits) - 1
NewOf(bits, r, g, b) ==
  LET max_value == 2 ^ bits - 1
      clamp(v) == IF v > max_value THEN max_value ELSE v
  IN  Color(clamp(r), clamp(g), clamp(b))

\* whether MAX_VALUE can be evaluated: 1 << BITS is a shift of a u8, and a
\* shift by 8 or more is an overflow that constant evaluation reports as an
\* error of the build
MaxValueBuilds(bits) == bits < 8

\* Hub75Color::<bits>::new in a program: the colour, or no program at all
ColorNew(bits, r, g, b) ==
  IF MaxValueBuilds(bits)
    THEN Ok(NewOf(bits, r, g, b))
    ELSE Err("MAX_VALUE: attempt to shift left with overflow")

Black == Color(0, 0, 0)

Red == Color(MAX_VALUE, 0, 0)

\* a & b
RECURSIVE BitAnd(_, _)
BitAnd(a, b) ==
  IF a = 0 \/ b = 0
    THEN 0
    ELSE (a % 2) * (b % 2) + 2 * BitAnd(a \div 2, b \div 2)

\* (value & (1 << bit)) != 0
BitSet(v, p) == BitAnd(v, 2 ^ p) # 0

\* the mask of the next plane up
GetBit_NextPlane(c, p) ==
  IF p >= COLOR_BITS
    THEN << FALSE, FALSE, FALSE >>
    ELSE << BitSet(c.r, p + 1), BitSet(c.g, p + 1), BitSet(c.b, p + 1) >>

GetBit(c, p) ==
  IF p >= COLOR_BITS
    THEN << FALSE, FALSE, FALSE >>
    ELSE << BitSet(c.r, p), BitSet(c.g, p), BitSet(c.b, p) >>

\* Hub75Color::<bits>::from_rgb8: r >> shift on u8
FromRgb8Of(bits, r, g, b) ==
  IF bits >= 8
    THEN NewOf(bits, r, g, b)
    ELSE LET shift == 8 - bits
         IN  NewOf(bits, r \div (2 ^ shift), g \div (2 ^ shift), b \div (2 ^ shift))

FromRgb8(r, g, b) == FromRgb8Of(COLOR_BITS, r, g, b)

\* a to_rgb8 that hands the channels out as they are
ToRgb8Of_Unscaled(bits, c) == << c.r, c.g, c.b >>

\* Hub75Color::<bits>::to_rgb8: r << shift on u8 (the shifted-out bits are lost)
ToRgb8Of(bits, c) ==
  IF bits >= 8
    THEN << c.r, c.g, c.b >>
    ELSE LET shift == 8 - bits
         IN  << (c.r * (2 ^ shift)) % 256, (c.g * (2 ^ shift)) % 256,
                (c.b * (2 ^ shift)) % 256 >>

ToRgb8(c) == ToRgb8Of(COLOR_BITS, c)

\* From<Rgb565>: channels r, b in 0..31 and g in 0..63, scaled in u16 and cut to u8
FromRgb565(c) ==
  FromRgb8(((c.r * 255) \div 31) % 256, ((c.g * 255) \div 63) % 256,
           ((c.b * 255) \div 31) % 256)

(***************************************************************************)
(* Hub75FrameBuffer<WIDTH, HEIGHT, BITS> (frame_buffer.rs): pixels[y][x].  *)
(***************************************************************************)
\* a fill that stops after the first row
FbFill_FirstRow(fb, c) == [ fb EXCEPT ![0] = [ x \in Cols |-> c ] ]

FbFill(fb, c) == [ y \in Rows |-> [ x \in Cols |-> c ] ]

FbNew == [ y \in Rows |-> [ x \in Cols |-> Black ] ]

FbClear(fb) == FbFill(fb, Black)

\* a set_pixel that paints the whole row
FbSetPixel_Row(fb, x, y, c) ==
  IF x >= WIDTH \/ y >= HEIGHT
    THEN [ fb |-> fb, ret |-> Err("InvalidCoordinates") ]
    ELSE [ fb |-> [ fb EXCEPT ![y] = [ i \in Cols |-> c ] ], ret |-> Ok(<< >>) ]

\* set_pixel through pixel_mut: the buffer afterwards and the value returned
FbSetPixel(fb, x, y, c) ==
  IF x >= WIDTH \/ y >= HEIGHT
    THEN [ fb |-> fb, ret |-> Err("InvalidCoordinates") ]
    ELSE [ fb |-> [ fb EXCEPT ![y][x] = c ], ret |-> Ok(<< >>) ]

FbGetPixel(fb, x, y) ==
  IF x >= WIDTH \/ y >= HEIGHT
    THEN Err("InvalidCoordinates")
    ELSE Ok(fb[y][x])

\* a copy that leaves the destination as it was
FbCopyFrom_Noop(fb, other) == fb

FbCopyFrom(fb, other) == other

\* a swap that copies instead of exchanging
FbSwap_Copy(fb, other) == << other, other >>

\* core::mem::swap of the two pixel arrays: << self afterwards, other afterwards >>
FbSwap(fb, other) == << other, fb >>

RECURSIVE RowBitPlaneLoop(_, _, _, _, _)
RowBitPlaneLoop(fb, r, p, x, acc) ==
  IF x >= WIDTH
    THEN Ok(acc)
    ELSE IF Len(acc) >= WIDTH
      THEN Err("BufferOverflow")
      ELSE LET upper == GetBit(fb[r][x], p)
               lower == GetBit(fb[r + HEIGHT \div 2][x], p)
           IN  RowBitPlaneLoop(fb, r, p, x + 1, Append(acc, upper \o lower))

FbGetRowBitPlane(fb, r, p) ==
  IF r >= HEIGHT \div 2
    THEN Err("InvalidCoordinates")
    ELSE IF p >= COLOR_BITS
      THEN Err("InvalidColor")
      ELSE RowBitPlaneLoop(fb, r, p, 0, << >>)

\* coord as usize < bound: a negative i32 becomes a value above every bound
InBoundsAsUsize(v, bound) == v >= 0 /\ v < bound

\* a draw_iter that reports the first pixel outside the panel and stops there
RECURSIVE FbDrawIter_Strict(_, _)
FbDrawIter_Strict(fb, pixels) ==
  IF pixels = << >>
    THEN [ fb |-> fb, ret |-> Ok(<< >>) ]
    ELSE LET px == Head(pixels)
             w == FbSetPixel(fb, px.x, px.y, FromRgb565(px.color))
         IN  IF px.x >= 0 /\ px.y >= 0 /\ w.ret.ok
               THEN FbDrawIter_Strict(w.fb, Tail(pixels))
               ELSE [ fb |-> fb, ret |-> Err("InvalidCoordinates") ]

\* DrawTarget::draw_iter of the frame buffer over a sequence of [x, y, color]
RECURSIVE FbDrawIter(_, _)
FbDrawIter(fb, pixels) ==
  IF pixels = << >>
    THEN [ fb |-> fb, ret |-> Ok(<< >>) ]
    ELSE LET px == Head(pixels)
         IN  IF InBoundsAsUsize(px.x, WIDTH) /\ InBoundsAsUsize(px.y, HEIGHT)
               THEN LET w == FbSetPixel(fb, px.x, px.y, FromRgb565(px.color))
                    IN  IF w.ret.ok THEN FbDrawIter(w.fb, Tail(pixels)) ELSE w
               ELSE FbDrawIter(fb, Tail(pixels))

(***************************************************************************)
(* Hub75Pins (pins.rs).  The pins are one record of levels (TRUE = high);  *)
(* has_d and has_e say whether the optional address pins D and E exist.    *)
(* Every GPIO function issues its writes in order and stops at the first   *)
(* write that fails (pin_op!); a failed write leaves its pin unchanged.    *)
(***************************************************************************)
W(pin, level) == [ pin |-> pin, level |-> level ]

\* the record after the first k writes of ws
RECURSIVE ApplyWrites(_, _, _)
ApplyWrites(rec, ws, k) ==
  IF k = 0 \/ ws = << >>
    THEN rec
    ELSE ApplyWrites([ rec EXCEPT ![Head(ws).pin] = Head(ws).level ], Tail(ws), k - 1)

\* an init that leaves the output enabled
InitWrites_OutputEnabled(p) ==
  << W("r1", FALSE), W("g1", FALSE), W("b1", FALSE),
     W("r2", FALSE), W("g2", FALSE), W("b2", FALSE),
     W("a", FALSE), W("b", FALSE), W("c", FALSE) >>
  \o (IF p.has_d THEN << W("d", FALSE) >> ELSE << >>)
  \o (IF p.has_e THEN << W("e", FALSE) >> ELSE << >>)
  \o << W("clk", FALSE), W("lat", FALSE), W("oe", FALSE) >>

InitWrites(p) ==
  << W("r1", FALSE), W("g1", FALSE), W("b1", FALSE),
     W("r2", FALSE), W("g2", FALSE), W("b2", FALSE),
     W("a", FALSE), W("b", FALSE), W("c", FALSE) >>
  \o (IF p.has_d THEN << W("d", FALSE) >> ELSE << >>)
  \o (IF p.has_e THEN << W("e", FALSE) >> ELSE << >>)
  \o << W("clk", FALSE), W("lat", FALSE), W("oe", TRUE) >>

AddressPinCount(p) == 3 + (IF p.has_d THEN 1 ELSE 0) + (IF p.has_e THEN 1 ELSE 0)


\* a limit that is the number of address pins rather than two to its power
MaxAddressableRows_Count(p) == AddressPinCount(p)

MaxAddressableRows(p) == 2 ^ AddressPinCount(p)

SetRgbWrites(bits) ==
  << W("r1", bits[1]), W("g1", bits[2]), W("b1", bits[3]),
     W("r2", bits[4]), W("g2", bits[5]), W("b2", bits[6]) >>

\* (row & (1 << bit)) != 0 on each address pin present
SetAddressWrites(p, r) ==
  << W("a", BitSet(r, 0)), W("b", BitSet(r, 1)), W("c", BitSet(r, 2)) >>
  \o (IF p.has_d THEN << W("d", BitSet(r, 3)) >> ELSE << >>)
  \o (IF p.has_e THEN << W("e", BitSet(r, 4)) >> ELSE << >>)

ClockPulseWrites == << W("clk", TRUE), W("clk", FALSE) >>

LatchPulseWrites == << W("lat", TRUE), W("lat", FALSE) >>

EnableOutputWrites == << W("oe", FALSE) >>

DisableOutputWrites == << W("oe", TRUE) >>

\* a trace entry: one GPIO write issued, or one sleep requested
PinEvent(w, ok) == [ kind |-> w.pin, level |-> w.level, ns |-> << 0, 0 >>, ok |-> ok ]

SleepEvent(ns) == [ kind |-> "sleep", level |-> FALSE, ns |-> ns, ok |-> TRUE ]

\* the writes a GPIO function issues when its first okc writes succeed: all of
\* them when okc = Len(ws), else the okc successful ones and the failing one
Issued(ws, okc) ==
  [ i \in 1 .. (IF okc < Len(ws) THEN okc + 1 ELSE Len(ws)) |-> PinEvent(ws[i], i <= okc) ]

(***************************************************************************)
(* Display engine (display.rs)                                             *)
(***************************************************************************)
\* brightness taken as a fraction of 256
ScaledDurationNs_Div256(base, p, level) ==
  LET bit_duration == MulU32(base, 2 ^ p)
      scaled == MulU32(bit_duration.val, level)
  IN  [ val |-> DivU32(scaled.val, 256),
        overflow |-> bit_duration.overflow \/ scaled.overflow ]

\* plane weights 1, 2, 3, ... instead of 1, 2, 4, ...
ScaledDurationNs_Linear(base, p, level) ==
  LET bit_duration == MulU32(base, p + 1)
      scaled == MulU32(bit_duration.val, level)
  IN  [ val |-> DivU32(scaled.val, 255),
        overflow |-> bit_duration.overflow \/ scaled.overflow ]

\* bit_duration_ns = refresh_interval_ns * (1 << bit_plane);
\* scaled_duration_ns = bit_duration_ns * brightness_factor / 255, all in u32
ScaledDurationNs(base, p, level) ==
  LET bit_duration == MulU32(base, 2 ^ p)
      scaled == MulU32(bit_duration.val, level)
  IN  [ val |-> DivU32(scaled.val, 255),
        overflow |-> bit_duration.overflow \/ scaled.overflow ]

\* the pin levels before Hub75Pins::init ran, for each choice of optional pins
\* (the field of an absent pin is not a pin: it stays FALSE)
RawPins(lvl, d, e) ==
  [ r1 |-> lvl, g1 |-> lvl, b1 |-> lvl, r2 |-> lvl, g2 |-> lvl, b2 |-> lvl,
    a |-> lvl, b |-> lvl, c |-> lvl, d |-> (d /\ lvl), e |-> (e /\ lvl),
    clk |-> lvl, lat |-> lvl, oe |-> ~lvl, has_d |-> d, has_e |-> e ]

PinsInit(p) == ApplyWrites(p, InitWrites(p), Len(InitWrites(p)))

NoCall == [ fn |-> "none", args |-> << >>, ret |-> << >> ]

\* no Animation has been constructed
NoAnimation == [ state |-> "none" ]

\* the engine is owned by one task: there is no lock and no second task
Unshared == [ lock |-> "none", refresher |-> "off", drawer |-> "off" ]

\* Hub75Display::new after a pin init in which every write succeeded
InitEngine(raw, ops, fails, passes) ==
  /\ HEIGHT \div 2 <= MaxAddressableRows(raw)
  /\ pins = PinsInit(raw)
  /\ front_buffer = FbNew
  /\ back_buffer = FbNew
  /\ current_row = 0
  /\ current_bit_plane = 0
  /\ brightness = DefaultBrightness
  /\ refresh_interval_ns = U32(DefaultRefreshIntervalNs)
  /\ double_buffering = FALSE
  /\ pc = "idle"
  /\ bit_plane = 0
  /\ row = 0
  /\ bit_data = << >>
  /\ col = 1
  /\ result = "none"
  /\ task = "direct"
  /\ trace = << >>
  /\ op = [ name |-> "new", ok |-> TRUE ]
  /\ ops_left = ops
  /\ fail_left = fails
  /\ pass_left = passes
  /\ frames_left = 0
  /\ oe_note = "ok"

\* a panel of at most 16 rows, wired without the optional address pins
Init ==
  /\ \E lvl \in BOOLEAN : InitEngine(RawPins(lvl, FALSE, FALSE), MaxOps, MaxFailures, MaxPasses)
  /\ call = NoCall
  /\ sched = Unshared
  /\ anim = NoAnimation

(***************************************************************************)
(* render_frame, one action per GPIO function call or sleep.  okc is the   *)
(* number of writes of the call that succeed before one fails (all of them *)
(* when okc is the number of writes).                                      *)
(***************************************************************************)
Fails(ws, okc) == okc < Len(ws)

CanFail(ws, okc) == okc \in 0 .. Len(ws) /\ (Fails(ws, okc) => fail_left > 0)

\* where render_frame's caller t continues when render_frame returns res
ReturnPc(t, res) ==
  IF t = "direct" THEN "idle"
  ELSE IF t = "display_frame" THEN "display_frame_loop"
  ELSE IF res = "Ok" THEN "refresh_loop" ELSE "refresh_delay"

\* render_frame returns res to its caller
Return(res) ==
  /\ result' = res
  /\ pc' = ReturnPc(task, res)

\* a pass that resumes at the plane and row the previous one stopped at
PassStart_Resume(t) ==
  /\ bit_plane' = bit_plane
  /\ row' = row
  /\ trace' = << >>
  /\ IF COLOR_BITS > 0 /\ HEIGHT \div 2 > 0
       THEN pc' = "disable_output" /\ result' = "pending"
       ELSE result' = "Ok" /\ pc' = ReturnPc(t, "Ok")

\* entry of render_frame's loops
PassStart(t) ==
  /\ bit_plane' = 0
  /\ row' = 0
  /\ trace' = << >>
  /\ IF COLOR_BITS > 0 /\ HEIGHT \div 2 > 0
       THEN pc' = "disable_output" /\ result' = "pending"
       ELSE result' = "Ok" /\ pc' = ReturnPc(t, "Ok")

RenderFrame ==
  /\ pc = "idle" /\ task = "direct"
  /\ pass_left > 0
  /\ PassStart("direct")
  /\ pass_left' = pass_left - 1
  /\ op' = [ name |-> "render_frame", ok |-> TRUE ]
  /\ UNCHANGED << pins, front_buffer, back_buffer, current_row, current_bit_plane,
                  brightness, refresh_interval_ns, double_buffering, bit_data, col,
                  task, ops_left, fail_left, frames_left,
                  oe_note, call, sched, anim >>

RefreshTask ==
  /\ pc = "idle" /\ task = "direct"
  /\ task' = "refresh_task"
  /\ PassStart("refresh_task")
  /\ op' = [ name |-> "refresh_task", ok |-> TRUE ]
  /\ UNCHANGED << pins, front_buffer, back_buffer, current_row, current_bit_plane,
                  brightness, refresh_interval_ns, double_buffering, bit_data, col,
                  ops_left, fail_left, pass_left, frames_left,
                  oe_note, call, sched, anim >>

\* refresh_task: the next iteration of its loop calls render_frame again
RefreshLoop ==
  /\ pc = "refresh_loop"
  /\ PassStart("refresh_task")
  /\ UNCHANGED << pins, front_buffer, back_buffer, current_row, current_bit_plane,
                  brightness, refresh_interval_ns, double_buffering, bit_data, col,
                  task, op, ops_left, fail_left, pass_left, frames_left,
                  oe_note, call, sched, anim >>

\* refresh_task: render_frame returned an error, delay_ns(1_000_000) is called
\* and the task is suspended in it
RefreshDelay ==
  /\ pc = "refresh_delay"
  /\ trace' = Append(trace, SleepEvent(U32(RetryDelayNs)))
  /\ pc' = "retry_sleeping"
  /\ UNCHANGED << pins, front_buffer, back_buffer, current_row, current_bit_plane,
                  brightness, refresh_interval_ns, double_buffering, bit_plane, row,
                  bit_data, col, result, task, op, ops_left, fail_left, pass_left, frames_left,
                  oe_note, call, sched, anim >>

\* refresh_task: the 1 ms delay is over, the task is polled again and reaches
\* the head of its loop
RefreshDelayDone ==
  /\ pc = "retry_sleeping"
  /\ pc' = "refresh_loop"
  /\ UNCHANGED << pins, front_buffer, back_buffer, current_row, current_bit_plane,
                  brightness, refresh_interval_ns, double_buffering, bit_plane, row,
                  bit_data, col, result, task, trace, op, ops_left, fail_left, pass_left,
                  frames_left, oe_note, call, sched, anim >>

\* render_bit_plane was called by the user rather than by render_frame
Direct == op.name = "render_bit_plane"

\* a leading disable_output whose failure is ignored, as the trailing one's is
DisableOutput_Ignored(okc) ==
  /\ pc = "disable_output"
  /\ CanFail(DisableOutputWrites, okc)
  /\ current_row' = (IF Direct THEN current_row ELSE row)
  /\ current_bit_plane' = (IF Direct THEN current_bit_plane ELSE bit_plane)
  /\ pins' = ApplyWrites(pins, DisableOutputWrites, okc)
  /\ trace' = trace \o Issued(DisableOutputWrites, okc)
  /\ oe_note' = IF Fails(DisableOutputWrites, okc) THEN "fault" ELSE "ok"
  /\ fail_left' = IF Fails(DisableOutputWrites, okc) THEN fail_left - 1 ELSE fail_left
  /\ pc' = "set_address" /\ result' = result
  /\ UNCHANGED << front_buffer, back_buffer, brightness, refresh_interval_ns,
                  double_buffering, bit_plane, row, bit_data, col, task, op, ops_left,
                  pass_left, frames_left, call, sched, anim >>

\* lines 295-296 when render_frame is the caller, and render_bit_plane's leading
\* disable_output()?
DisableOutput(okc) ==
  /\ pc = "disable_output"
  /\ CanFail(DisableOutputWrites, okc)
  /\ current_row' = (IF Direct THEN current_row ELSE row)
  /\ current_bit_plane' = (IF Direct THEN current_bit_plane ELSE bit_plane)
  /\ pins' = ApplyWrites(pins, DisableOutputWrites, okc)
  /\ trace' = trace \o Issued(DisableOutputWrites, okc)
  /\ oe_note' = IF Fails(DisableOutputWrites, okc) THEN "fault" ELSE "ok"
  /\ fail_left' = IF Fails(DisableOutputWrites, okc) THEN fail_left - 1 ELSE fail_left
  /\ IF Fails(DisableOutputWrites, okc)
       THEN Return("PinError")
       ELSE pc' = "set_address" /\ result' = result
  /\ UNCHANGED << front_buffer, back_buffer, brightness, refresh_interval_ns,
                  double_buffering, bit_plane, row, bit_data, col, task, op, ops_left,
                  pass_left, frames_left, call, sched, anim >>

\* bit data taken from the buffer being drawn into
RowBitData_BackBuffer ==
  FbGetRowBitPlane(IF double_buffering THEN back_buffer ELSE front_buffer,
                   current_row, current_bit_plane)

\* render_bit_plane's bit_data: the front buffer's row and plane
RowBitData == FbGetRowBitPlane(front_buffer, current_row, current_bit_plane)

\* set_address(current_row)? and then get_row_bit_plane(current_row, current_bit_plane)?
SetAddress(okc) ==
  LET ws == SetAddressWrites(pins, current_row)
      bd == RowBitData
  IN  /\ pc = "set_address"
      /\ CanFail(ws, okc)
      /\ pins' = ApplyWrites(pins, ws, okc)
      /\ trace' = trace \o Issued(ws, okc)
      /\ fail_left' = IF Fails(ws, okc) THEN fail_left - 1 ELSE fail_left
      /\ IF Fails(ws, okc)
           THEN Return("PinError") /\ UNCHANGED << bit_data, col >>
           ELSE IF ~bd.ok
             THEN Return(bd.err) /\ UNCHANGED << bit_data, col >>
             ELSE /\ bit_data' = bd.val
                  /\ col' = 1
                  /\ pc' = IF Len(bd.val) = 0 THEN "latch_pulse" ELSE "set_rgb"
                  /\ result' = result
      /\ UNCHANGED << front_buffer, back_buffer, current_row, current_bit_plane,
                      brightness, refresh_interval_ns, double_buffering, bit_plane,
                      row, task, op, ops_left, pass_left, frames_left,
                  oe_note, call, sched, anim >>

\* set_rgb(...)? for the next element of bit_data
SetRgb(okc) ==
  LET ws == SetRgbWrites(bit_data[col])
  IN  /\ pc = "set_rgb"
      /\ CanFail(ws, okc)
      /\ pins' = ApplyWrites(pins, ws, okc)
      /\ trace' = trace \o Issued(ws, okc)
      /\ fail_left' = IF Fails(ws, okc) THEN fail_left - 1 ELSE fail_left
      /\ IF Fails(ws, okc)
           THEN Return("PinError")
           ELSE pc' = "clock_pulse" /\ result' = result
      /\ UNCHANGED << front_buffer, back_buffer, current_row, current_bit_plane,
                      brightness, refresh_interval_ns, double_buffering, bit_plane,
                      row, bit_data, col, task, op, ops_left, pass_left, frames_left,
                  oe_note, call, sched, anim >>

\* clock_pulse()? and the step of the for loop over bit_data
ClockPulse(okc) ==
  /\ pc = "clock_pulse"
  /\ CanFail(ClockPulseWrites, okc)
  /\ pins' = ApplyWrites(pins, ClockPulseWrites, okc)
  /\ trace' = trace \o Issued(ClockPulseWrites, okc)
  /\ fail_left' = IF Fails(ClockPulseWrites, okc) THEN fail_left - 1 ELSE fail_left
  /\ IF Fails(ClockPulseWrites, okc)
       THEN Return("PinError") /\ col' = col
       ELSE /\ col' = col + 1
            /\ pc' = IF col + 1 > Len(bit_data) THEN "latch_pulse" ELSE "set_rgb"
            /\ result' = result
  /\ UNCHANGED << front_buffer, back_buffer, current_row, current_bit_plane,
                  brightness, refresh_interval_ns, double_buffering, bit_plane, row,
                  bit_data, task, op, ops_left, pass_left, frames_left,
                  oe_note, call, sched, anim >>

LatchPulse(okc) ==
  /\ pc = "latch_pulse"
  /\ CanFail(LatchPulseWrites, okc)
  /\ pins' = ApplyWrites(pins, LatchPulseWrites, okc)
  /\ trace' = trace \o Issued(LatchPulseWrites, okc)
  /\ fail_left' = IF Fails(LatchPulseWrites, okc) THEN fail_left - 1 ELSE fail_left
  /\ IF Fails(LatchPulseWrites, okc)
       THEN Return("PinError")
       ELSE pc' = "enable_output" /\ result' = result
  /\ UNCHANGED << front_buffer, back_buffer, current_row, current_bit_plane,
                  brightness, refresh_interval_ns, double_buffering, bit_plane, row,
                  bit_data, col, task, op, ops_left, pass_left, frames_left,
                  oe_note, call, sched, anim >>

\* enable_output()?, the last statement of render_bit_plane
EnableOutput(okc) ==
  /\ pc = "enable_output"
  /\ CanFail(EnableOutputWrites, okc)
  /\ pins' = ApplyWrites(pins, EnableOutputWrites, okc)
  /\ trace' = trace \o Issued(EnableOutputWrites, okc)
  /\ oe_note' = IF Fails(EnableOutputWrites, okc) THEN "fault"
               ELSE IF Direct THEN "direct" ELSE "ok"
  /\ fail_left' = IF Fails(EnableOutputWrites, okc) THEN fail_left - 1 ELSE fail_left
  /\ IF Fails(EnableOutputWrites, okc)
       THEN Return("PinError")
       ELSE IF Direct THEN Return("Ok") ELSE pc' = "delay" /\ result' = result
  /\ UNCHANGED << front_buffer, back_buffer, current_row, current_bit_plane,
                  brightness, refresh_interval_ns, double_buffering, bit_plane, row,
                  bit_data, col, task, op, ops_left, pass_left, frames_left, call, sched, anim >>

\* lines 300-307: the BCM delay.  A product that overflows u32 panics in a build
\* with overflow checks (checked) and wraps in one without.
Delay(checked) ==
  LET d == ScaledDurationNs(refresh_interval_ns, bit_plane, brightness)
  IN  /\ pc = "delay"
      /\ IF d.overflow /\ checked
           THEN pc' = "panicked" /\ trace' = trace
           ELSE pc' = "sleeping" /\ trace' = Append(trace, SleepEvent(d.val))
      /\ UNCHANGED << pins, front_buffer, back_buffer, current_row, current_bit_plane,
                      brightness, refresh_interval_ns, double_buffering, bit_plane,
                      row, bit_data, col, result, task, op, ops_left, fail_left, pass_left, frames_left,
                  oe_note, call, sched, anim >>

\* line 307: delay_ns(..).await completes.  This await is where render_frame is
\* suspended, and the only one in render_frame and render_bit_plane.
DelayDone ==
  /\ pc = "sleeping"
  /\ pc' = "trailing_disable"
  /\ UNCHANGED << pins, front_buffer, back_buffer, current_row, current_bit_plane,
                  brightness, refresh_interval_ns, double_buffering, bit_plane, row,
                  bit_data, col, result, task, trace, op, ops_left, fail_left,
                  pass_left, frames_left, oe_note, call, sched, anim >>

\* a future that could be dropped at any point of a pass
Cancel_Anywhere ==
  /\ pc \in { "set_rgb", "clock_pulse", "latch_pulse", "enable_output", "sleeping",
             "retry_sleeping" }
  /\ pc' = "idle"
  /\ task' = "direct"
  /\ result' = "cancelled"
  /\ frames_left' = 0
  /\ UNCHANGED << pins, front_buffer, back_buffer, current_row, current_bit_plane,
                  brightness, refresh_interval_ns, double_buffering, bit_plane, row,
                  bit_data, col, trace, op, ops_left, fail_left, pass_left, oe_note,
                  call, sched, anim >>

\* a future is dropped where it is suspended: render_frame (or the refresh_task
\* or display_frame running it) in the delay of a step, refresh_task in its 1 ms
\* delay after a failed pass.  Nothing of the engine is touched by the drop.
Cancel ==
  /\ pc \in { "sleeping", "retry_sleeping" }
  /\ pc' = "idle"
  /\ task' = "direct"
  /\ result' = "cancelled"
  /\ frames_left' = 0
  /\ UNCHANGED << pins, front_buffer, back_buffer, current_row, current_bit_plane,
                  brightness, refresh_interval_ns, double_buffering, bit_plane, row,
                  bit_data, col, trace, op, ops_left, fail_left, pass_left, oe_note,
                  call, sched, anim >>

\* a wrong loop nest: rows outermost, bit planes inside
NextStep_RowsOuter ==
  IF bit_plane + 1 < COLOR_BITS THEN << bit_plane + 1, row >>
  ELSE IF row + 1 < HEIGHT \div 2 THEN << 0, row + 1 >>
  ELSE << >>

\* loops that run the plane up to and including COLOR_BITS
NextStep_PlaneInclusive ==
  IF row + 1 < HEIGHT \div 2 THEN << bit_plane, row + 1 >>
  ELSE IF bit_plane + 1 <= COLOR_BITS THEN << bit_plane + 1, 0 >>
  ELSE << >>

\* the loop nest of lines 292-293: the << bit_plane, row >> of the next iteration,
\* or << >> after the last one
NextStep ==
  IF row + 1 < HEIGHT \div 2 THEN << bit_plane, row + 1 >>
  ELSE IF bit_plane + 1 < COLOR_BITS THEN << bit_plane + 1, 0 >>
  ELSE << >>

\* a trailing disable_output whose failure is propagated like the others
TrailingDisableOutput_Propagated(okc) ==
  /\ pc = "trailing_disable"
  /\ CanFail(DisableOutputWrites, okc)
  /\ pins' = ApplyWrites(pins, DisableOutputWrites, okc)
  /\ trace' = trace \o Issued(DisableOutputWrites, okc)
  /\ oe_note' = IF Fails(DisableOutputWrites, okc) THEN "fault" ELSE "ok"
  /\ fail_left' = IF Fails(DisableOutputWrites, okc) THEN fail_left - 1 ELSE fail_left
  /\ IF Fails(DisableOutputWrites, okc)
       THEN Return("PinError") /\ UNCHANGED << row, bit_plane >>
       ELSE IF NextStep # << >>
         THEN /\ bit_plane' = NextStep[1]
              /\ row' = NextStep[2]
              /\ pc' = "disable_output" /\ result' = result
         ELSE Return("Ok") /\ UNCHANGED << row, bit_plane >>
  /\ UNCHANGED << front_buffer, back_buffer, current_row, current_bit_plane,
                  brightness, refresh_interval_ns, double_buffering, bit_data, col,
                  task, op, ops_left, pass_left, frames_left, call, sched, anim >>

\* line 310: disable_output().ok(), then the next iteration of the loops
TrailingDisableOutput(okc) ==
  /\ pc = "trailing_disable"
  /\ CanFail(DisableOutputWrites, okc)
  /\ pins' = ApplyWrites(pins, DisableOutputWrites, okc)
  /\ trace' = trace \o Issued(DisableOutputWrites, okc)
  /\ oe_note' = IF Fails(DisableOutputWrites, okc) THEN "fault" ELSE "ok"
  /\ fail_left' = IF Fails(DisableOutputWrites, okc) THEN fail_left - 1 ELSE fail_left
  /\ IF NextStep # << >>
       THEN /\ bit_plane' = NextStep[1]
            /\ row' = NextStep[2]
            /\ pc' = "disable_output" /\ result' = result
       ELSE Return("Ok") /\ UNCHANGED << row, bit_plane >>
  /\ UNCHANGED << front_buffer, back_buffer, current_row, current_bit_plane,
                  brightness, refresh_interval_ns, double_buffering, bit_data, col,
                  task, op, ops_left, pass_left, frames_left, call, sched, anim >>

(***************************************************************************)
(* The engine's drawing and configuration calls.  They borrow the engine   *)
(* mutably, so none runs while a render_frame or the refresh_task holds it.*)
(***************************************************************************)
Idle == pc = "idle" /\ task = "direct"

Counted(name, ok) ==
  /\ ops_left > 0
  /\ ops_left' = ops_left - 1
  /\ op' = [ name |-> name, ok |-> ok ]

\* back_buffer(): the back buffer with double buffering, else the front buffer
BackBuffer == IF double_buffering THEN back_buffer ELSE front_buffer

\* drawing that always lands in the front buffer
WriteBackBuffer_Front(fb) == front_buffer' = fb /\ back_buffer' = back_buffer

\* assignment through the reference back_buffer() returns
WriteBackBuffer(fb) ==
  IF double_buffering
    THEN back_buffer' = fb /\ front_buffer' = front_buffer
    ELSE front_buffer' = fb /\ back_buffer' = back_buffer

SetDoubleBuffering(enabled) ==
  /\ Idle
  /\ Counted("set_double_buffering", TRUE)
  /\ double_buffering' = enabled
  /\ UNCHANGED << front_buffer, back_buffer, brightness, refresh_interval_ns,
                  render_vars, call, sched, anim >>

SwapBuffers ==
  /\ Idle
  /\ Counted("swap_buffers", TRUE)
  /\ IF double_buffering
       THEN /\ front_buffer' = FbSwap(front_buffer, back_buffer)[1]
            /\ back_buffer' = FbSwap(front_buffer, back_buffer)[2]
       ELSE UNCHANGED << front_buffer, back_buffer >>
  /\ UNCHANGED << double_buffering, brightness, refresh_interval_ns, render_vars, call, sched, anim >>

SetBrightness(level) ==
  /\ Idle
  /\ Counted("set_brightness", TRUE)
  /\ brightness' = level
  /\ UNCHANGED << front_buffer, back_buffer, double_buffering, refresh_interval_ns,
                  render_vars, call, sched, anim >>

SetRefreshIntervalNs(interval_ns) ==
  /\ Idle
  /\ Counted("set_refresh_interval_ns", TRUE)
  /\ refresh_interval_ns' = interval_ns
  /\ UNCHANGED << front_buffer, back_buffer, double_buffering, brightness,
                  render_vars, call, sched, anim >>

\* back_buffer().clear(), and front_buffer.clear() when double buffering is off
Clear ==
  /\ Idle
  /\ Counted("clear", TRUE)
  /\ IF double_buffering
       THEN back_buffer' = FbClear(back_buffer) /\ front_buffer' = front_buffer
       ELSE front_buffer' = FbClear(FbClear(front_buffer)) /\ back_buffer' = back_buffer
  /\ UNCHANGED << double_buffering, brightness, refresh_interval_ns, render_vars, call, sched, anim >>

\* a counted call whose arguments are kept with its outcome
CountedArgs(name, ok, args) ==
  /\ ops_left > 0
  /\ ops_left' = ops_left - 1
  /\ op' = [ name |-> name, ok |-> ok, args |-> args ]

SetPixel(x, y, color) ==
  LET w == FbSetPixel(BackBuffer, x, y, color)
  IN  /\ Idle
      /\ CountedArgs("set_pixel", w.ret.ok, << x, y, color >>)
      /\ WriteBackBuffer(w.fb)
      /\ UNCHANGED << double_buffering, brightness, refresh_interval_ns, render_vars,
                      call, sched, anim >>

\* get_pixel: self.front_buffer().get_pixel(x, y), in either mode
GetPixel(x, y) ==
  /\ Idle
  /\ Counted("get_pixel", FbGetPixel(front_buffer, x, y).ok)
  /\ call' = [ fn |-> "get_pixel", args |-> << x, y >>, ret |-> FbGetPixel(front_buffer, x, y) ]
  /\ UNCHANGED << front_buffer, back_buffer, double_buffering, brightness,
                  refresh_interval_ns, render_vars, sched, anim >>

Fill(color) ==
  /\ Idle
  /\ Counted("fill", TRUE)
  /\ WriteBackBuffer(FbFill(BackBuffer, color))
  /\ UNCHANGED << double_buffering, brightness, refresh_interval_ns, render_vars, call, sched, anim >>

\* DrawTarget::draw_iter of the engine
DrawIter(pixels) ==
  LET w == FbDrawIter(BackBuffer, pixels)
  IN  /\ Idle
      /\ CountedArgs("draw_iter", w.ret.ok, << pixels >>)
      /\ WriteBackBuffer(w.fb)
      /\ UNCHANGED << double_buffering, brightness, refresh_interval_ns, render_vars,
                      call, sched, anim >>

\* a call of the public render_bit_plane for the row and plane the cursor holds
RenderBitPlane ==
  /\ Idle
  /\ Counted("render_bit_plane", TRUE)
  /\ pc' = "disable_output"
  /\ result' = "pending"
  /\ trace' = << >>
  /\ UNCHANGED << pins, front_buffer, back_buffer, current_row, current_bit_plane,
                  brightness, refresh_interval_ns, double_buffering, bit_plane, row,
                  bit_data, col, task, fail_left, pass_left, frames_left, oe_note, call, sched, anim >>

\* display_frame up to the head of its loop.  frame_duration_ns overflows u32 for
\* a large base tick (panic when checked, wrapped otherwise) and a zero
\* frame_duration_ns panics in the division.
DisplayFrame(frame, duration_ns, checked) ==
  /\ Idle
  /\ CountedArgs("display_frame", TRUE, << duration_ns, 0 >>)
  /\ \E fd \in { MulU32(refresh_interval_ns, 2 ^ (COLOR_BITS - 1)) } :
       IF (fd.overflow /\ checked) \/ fd.val = << 0, 0 >>
         THEN pc' = "panicked" /\ frames_left' = frames_left
         ELSE \E num_frames \in { DivU32Full(duration_ns, fd.val) } :
                /\ num_frames[1] = 0 /\ num_frames[2] <= MaxFrames
                /\ pc' = "display_frame_loop"
                /\ frames_left' = IF num_frames[2] > 1 THEN num_frames[2] ELSE 1
  /\ IF double_buffering
       THEN /\ front_buffer' = FbSwap(front_buffer, FbCopyFrom(back_buffer, frame))[1]
            /\ back_buffer' = FbSwap(front_buffer, FbCopyFrom(back_buffer, frame))[2]
       ELSE /\ front_buffer' = FbCopyFrom(front_buffer, frame)
            /\ back_buffer' = back_buffer
  /\ task' = "display_frame"
  /\ result' = "none"
  /\ trace' = << >>
  /\ UNCHANGED << pins, current_row, current_bit_plane, brightness,
                  refresh_interval_ns, double_buffering, bit_plane, row, bit_data,
                  col, fail_left, pass_left, oe_note, call, sched, anim >>

\* display_frame's loop: render_frame(delay).await? once more, or return.  The
\* call's record keeps duration_ns and the number of passes begun so far.
DisplayFrameLoop ==
  /\ pc = "display_frame_loop"
  /\ IF result \notin { "none", "Ok" }
       THEN /\ op' = [ op EXCEPT !.ok = FALSE ]
            /\ task' = "direct" /\ pc' = "idle"
            /\ UNCHANGED << frames_left, bit_plane, row, trace, result >>
       ELSE IF frames_left > 0
         THEN /\ frames_left' = frames_left - 1
              /\ PassStart("display_frame")
              /\ op' = [ op EXCEPT !.args = << op.args[1], op.args[2] + 1 >> ]
              /\ task' = task
         ELSE /\ op' = [ op EXCEPT !.ok = TRUE ]
              /\ task' = "direct" /\ pc' = "idle"
              /\ UNCHANGED << frames_left, bit_plane, row, trace, result >>
  /\ UNCHANGED << pins, front_buffer, back_buffer, current_row, current_bit_plane,
                  brightness, refresh_interval_ns, double_buffering, bit_data, col,
                  ops_left, fail_left, pass_left, oe_note, call, sched, anim >>

(***************************************************************************)
(* Inputs of the calls                                                     *)
(***************************************************************************)
Mixed == New(1, 2, 3)

DrawColors == { Red, Mixed }

Rgb565(r, g, b) == [ r |-> r, g |-> g, b |-> b ]

Pixel(x, y, color) == [ x |-> x, y |-> y, color |-> color ]

\* pixel streams for draw_iter: in-bounds pixels mixed with pixels outside the panel
PixelStreams ==
  { << Pixel(0, 0, Rgb565(31, 0, 0)), Pixel(0 - 1, 0, Rgb565(0, 63, 0)),
       Pixel(WIDTH - 1, HEIGHT - 1, Rgb565(0, 32, 31)) >>,
    << Pixel(WIDTH, 0, Rgb565(31, 63, 31)), Pixel(0, HEIGHT \div 2, Rgb565(16, 63, 8)) >> }

\* pixel coordinates the rendering specification draws at: first column of an
\* upper row, last column of a lower row, and one outside the panel
ProbePixels == { << 0, 0 >>, << WIDTH - 1, HEIGHT \div 2 >>, << WIDTH, 0 >> }

BrightnessLevels == { 0, 255 }

\* base ticks: a small one that rounds, and u32::MAX
RefreshIntervals == { U32(3), << Limb - 1, Limb - 1 >> }

\* a frame to display: one pixel of the upper half and one of the lower half lit
ProbeFrame ==
  [ FbNew EXCEPT ![0][WIDTH - 1] = Mixed, ![HEIGHT \div 2][0] = Red ]

\* display durations: none, and two frames at the default base tick
FrameDurations == { U32(0), MulU32(U32(DefaultRefreshIntervalNs), 2 ^ COLOR_BITS).val }

Next ==
  \/ RenderFrame
  \/ RefreshTask
  \/ RefreshLoop
  \/ RefreshDelay
  \/ RefreshDelayDone
  \/ \E okc \in 0 .. 1 : DisableOutput(okc)
  \/ \E okc \in 0 .. 3 : SetAddress(okc)
  \/ \E okc \in 0 .. 6 : SetRgb(okc)
  \/ \E okc \in 0 .. 2 : ClockPulse(okc)
  \/ \E okc \in 0 .. 2 : LatchPulse(okc)
  \/ \E okc \in 0 .. 1 : EnableOutput(okc)
  \/ \E checked \in BOOLEAN : Delay(checked)
  \/ DelayDone
  \/ \E okc \in 0 .. 1 : TrailingDisableOutput(okc)
  \/ \E enabled \in BOOLEAN : SetDoubleBuffering(enabled)
  \/ SwapBuffers
  \/ \E level \in BrightnessLevels : SetBrightness(level)
  \/ \E interval_ns \in RefreshIntervals : SetRefreshIntervalNs(interval_ns)
  \/ Clear
  \/ \E xy \in ProbePixels, color \in DrawColors : SetPixel(xy[1], xy[2], color)
  \/ Fill(Mixed)
  \/ \E pixels \in PixelStreams : DrawIter(pixels)
  \/ RenderBitPlane
  \/ \E duration_ns \in FrameDurations, checked \in BOOLEAN :
       DisplayFrame(ProbeFrame, duration_ns, checked)
  \/ DisplayFrameLoop

Spec == Init /\ [][Next]_vars

(***************************************************************************)
(* The buffer specification: drawing, double buffering and display_frame   *)
(* on every pin configuration, with no GPIO failure.                       *)
(***************************************************************************)
InitDraw ==
  /\ \E lvl \in BOOLEAN, d \in BOOLEAN, e \in BOOLEAN :
       InitEngine(RawPins(lvl, d, e), MaxDrawOps, 0, 0)
  /\ call = NoCall
  /\ sched = Unshared
  /\ anim = NoAnimation

NextDraw ==
  \/ \E enabled \in BOOLEAN : SetDoubleBuffering(enabled)
  \/ SwapBuffers
  \/ Clear
  \/ \E x \in 0 .. WIDTH, y \in 0 .. HEIGHT, color \in DrawColors : SetPixel(x, y, color)
  \/ \E color \in DrawColors : Fill(color)
  \/ \E pixels \in PixelStreams : DrawIter(pixels)
  \/ RenderBitPlane
  \/ \E checked \in BOOLEAN : DisplayFrame(ProbeFrame, U32(0), checked)
  \/ DisplayFrameLoop
  \/ \E okc \in 0 .. 1 : DisableOutput(okc)
  \/ \E okc \in 0 .. 5 : SetAddress(okc)
  \/ \E okc \in 0 .. 6 : SetRgb(okc)
  \/ \E okc \in 0 .. 2 : ClockPulse(okc)
  \/ \E okc \in 0 .. 2 : LatchPulse(okc)
  \/ \E okc \in 0 .. 1 : EnableOutput(okc)
  \/ \E checked \in BOOLEAN : Delay(checked)
  \/ DelayDone
  \/ \E okc \in 0 .. 1 : TrailingDisableOutput(okc)

SpecDraw == InitDraw /\ [][NextDraw]_vars

(***************************************************************************)
(* The pixel specification: set_pixel and get_pixel of the engine, with    *)
(* double buffering switched on and off and buffers swapped in between.    *)
(***************************************************************************)
InitPixel ==
  /\ \E lvl \in BOOLEAN : InitEngine(RawPins(lvl, FALSE, FALSE), MaxDrawOps, 0, 0)
  /\ call = NoCall
  /\ sched = Unshared
  /\ anim = NoAnimation

NextPixel ==
  \/ \E enabled \in BOOLEAN : SetDoubleBuffering(enabled)
  \/ SwapBuffers
  \/ \E x \in 0 .. WIDTH, y \in 0 .. HEIGHT, color \in DrawColors : SetPixel(x, y, color)
  \/ \E x \in 0 .. WIDTH, y \in 0 .. HEIGHT : GetPixel(x, y)

SpecPixel == InitPixel /\ [][NextPixel]_vars

(***************************************************************************)
(* The construction specification: Hub75Display::new for panels of every   *)
(* height up to MaxPanelHeight, on every pin configuration, with pin init  *)
(* failing at any of its writes.                                           *)
(***************************************************************************)
\* Hub75FrameBuffer::new for a panel of the given height
FbNewOf(height) == [ y \in 0 .. (height - 1) |-> [ x \in Cols |-> Black ] ]

\* Hub75Display::<_, WIDTH, height, COLOR_BITS>::new(raw), pin init succeeding
\* in its first okc writes
NewDisplay(raw, height, okc) ==
  IF Fails(InitWrites(raw), okc)
    THEN Err("PinError")
    ELSE IF height \div 2 > MaxAddressableRows(raw)
      THEN Err("InvalidCoordinates")
      ELSE Ok([ pins |-> ApplyWrites(raw, InitWrites(raw), okc),
                front_buffer |-> FbNewOf(height),
                back_buffer |-> FbNewOf(height),
                current_row |-> 0,
                current_bit_plane |-> 0,
                brightness |-> DefaultBrightness,
                refresh_interval_ns |-> U32(DefaultRefreshIntervalNs),
                double_buffering |-> FALSE ])

NewCall(raw, height, okc) ==
  /\ call.fn = "none"
  /\ call' = [ fn |-> "new", args |-> << raw, height, okc >>,
               ret |-> NewDisplay(raw, height, okc) ]
  /\ UNCHANGED engine_vars

InitNew ==
  /\ InitEngine(RawPins(FALSE, FALSE, FALSE), 0, 0, 0)
  /\ call = NoCall
  /\ sched = Unshared
  /\ anim = NoAnimation

NextNew ==
  /\ call.fn = "none"
  /\ \E lvl \in BOOLEAN, d \in BOOLEAN, e \in BOOLEAN, height \in 0 .. MaxPanelHeight :
       \E okc \in 0 .. Len(InitWrites(RawPins(lvl, d, e))) :
         NewCall(RawPins(lvl, d, e), height, okc)

SpecNew == InitNew /\ [][NextNew]_vars

(***************************************************************************)
(* The refresh specification: refresh_task on an engine whose base tick    *)
(* may have been changed, with GPIO failures.  The executor keeps polling  *)
(* the task and the sleeper completes every delay, so each step of the     *)
(* task that is due is eventually taken.                                   *)
(***************************************************************************)
InitRefresh ==
  /\ \E lvl \in BOOLEAN : InitEngine(RawPins(lvl, FALSE, FALSE), 1, MaxFailures, 0)
  /\ call = NoCall
  /\ sched = Unshared
  /\ anim = NoAnimation

NextRefresh ==
  \/ \E interval_ns \in RefreshIntervals : SetRefreshIntervalNs(interval_ns)
  \/ RefreshTask
  \/ RefreshLoop
  \/ RefreshDelay
  \/ RefreshDelayDone
  \/ \E okc \in 0 .. 1 : DisableOutput(okc)
  \/ \E okc \in 0 .. 3 : SetAddress(okc)
  \/ \E okc \in 0 .. 6 : SetRgb(okc)
  \/ \E okc \in 0 .. 2 : ClockPulse(okc)
  \/ \E okc \in 0 .. 2 : LatchPulse(okc)
  \/ \E okc \in 0 .. 1 : EnableOutput(okc)
  \/ \E checked \in BOOLEAN : Delay(checked)
  \/ DelayDone
  \/ \E okc \in 0 .. 1 : TrailingDisableOutput(okc)

SpecRefresh ==
  InitRefresh /\ [][NextRefresh]_vars
    /\ WF_vars(RefreshLoop) /\ WF_vars(RefreshDelay) /\ WF_vars(RefreshDelayDone)

(***************************************************************************)
(* The shared-engine specification (examples/nrf/src/bin/basic_display.rs, *)
(* animated_patterns.rs): main puts the engine behind an async mutex and   *)
(* spawns a refresh task (lock, one render_frame, unlock, sleep) and a     *)
(* drawing task (lock, clear, draw, swap_buffers, unlock, sleep) on a      *)
(* single-core cooperative executor.  lock().await acquires the lock when  *)
(* it is free and waits otherwise; dropping the guard frees it.  A timer   *)
(* expires only when no task is ready to run: a sleep of a millisecond or  *)
(* more outlasts the polling of the tasks that are ready.                  *)
(***************************************************************************)
BeforeSpawn == [ lock |-> "free", refresher |-> "main", drawer |-> "main" ]

\* main: set_double_buffering, Mutex::new(display), spawn of both tasks
MainSpawn(enabled) ==
  /\ sched = BeforeSpawn
  /\ anim = NoAnimation
  /\ double_buffering' = enabled
  /\ op' = [ name |-> "set_double_buffering", ok |-> TRUE ]
  /\ sched' = [ lock |-> "free", refresher |-> "lock", drawer |-> "lock" ]
  /\ UNCHANGED << render_vars, front_buffer, back_buffer, brightness,
                  refresh_interval_ns, ops_left, call, anim >>

DrawerReady ==
  \/ sched.drawer \in { "clear", "draw", "swap", "unlock" }
  \/ sched.drawer = "lock" /\ sched.lock = "free"

RefresherReady ==
  \/ sched.refresher = "lock" /\ sched.lock = "free"
  \/ sched.refresher = "render" /\ pc # "sleeping"

\* refresh task: display_handle.lock().await, then display.render_frame(..)
RefresherLock ==
  /\ sched.refresher = "lock"
  /\ sched.lock = "free"
  /\ sched' = [ sched EXCEPT !.lock = "refresher", !.refresher = "render" ]
  /\ PassStart("direct")
  /\ op' = [ name |-> "render_frame", ok |-> TRUE ]
  /\ UNCHANGED << pins, front_buffer, back_buffer, current_row, current_bit_plane,
                  brightness, refresh_interval_ns, double_buffering, bit_data, col,
                  task, ops_left, fail_left, pass_left, frames_left, oe_note, call, anim >>

\* a refresh task that goes back for the lock without sleeping
RefresherUnlock_NoSleep ==
  /\ sched.refresher = "render"
  /\ pc = "idle"
  /\ sched' = [ sched EXCEPT !.lock = "free", !.refresher = "lock" ]
  /\ UNCHANGED << render_vars, front_buffer, back_buffer, brightness,
                  refresh_interval_ns, double_buffering, op, ops_left, call, anim >>

\* refresh task: render_frame has returned (its result is dropped), the guard
\* goes out of scope and Timer::after(..) starts
RefresherUnlock ==
  /\ sched.refresher = "render"
  /\ pc = "idle"
  /\ sched' = [ sched EXCEPT !.lock = "free", !.refresher = "sleep" ]
  /\ UNCHANGED << render_vars, front_buffer, back_buffer, brightness,
                  refresh_interval_ns, double_buffering, op, ops_left, call, anim >>

\* refresh task: Timer::after(..).await completes
RefresherWake ==
  /\ sched.refresher = "sleep"
  /\ ~DrawerReady
  /\ sched' = [ sched EXCEPT !.refresher = "lock" ]
  /\ UNCHANGED << render_vars, front_buffer, back_buffer, brightness,
                  refresh_interval_ns, double_buffering, op, ops_left, call, anim >>

\* a drawing task that goes ahead without waiting for the lock
DrawerLock_Unguarded ==
  /\ sched.drawer = "lock"
  /\ sched' = [ sched EXCEPT !.drawer = "clear" ]
  /\ UNCHANGED << render_vars, front_buffer, back_buffer, brightness,
                  refresh_interval_ns, double_buffering, op, ops_left, call, anim >>

\* drawing task: display_handle.lock().await
DrawerLock ==
  /\ sched.drawer = "lock"
  /\ sched.lock = "free"
  /\ sched' = [ sched EXCEPT !.lock = "drawer", !.drawer = "clear" ]
  /\ UNCHANGED << render_vars, front_buffer, back_buffer, brightness,
                  refresh_interval_ns, double_buffering, op, ops_left, call, anim >>

\* drawing task: display.clear()
DrawerClear ==
  /\ sched.drawer = "clear"
  /\ IF double_buffering
       THEN back_buffer' = FbClear(back_buffer) /\ front_buffer' = front_buffer
       ELSE front_buffer' = FbClear(FbClear(front_buffer)) /\ back_buffer' = back_buffer
  /\ op' = [ name |-> "clear", ok |-> TRUE ]
  /\ sched' = [ sched EXCEPT !.drawer = "draw" ]
  /\ UNCHANGED << render_vars, brightness, refresh_interval_ns, double_buffering,
                  ops_left, call, anim >>

\* drawing task: the shapes drawn through DrawTarget::draw_iter
DrawerDraw(pixels) ==
  /\ sched.drawer = "draw"
  /\ WriteBackBuffer(FbDrawIter(BackBuffer, pixels).fb)
  /\ op' = [ name |-> "draw_iter", ok |-> FbDrawIter(BackBuffer, pixels).ret.ok ]
  /\ sched' = [ sched EXCEPT !.drawer = "swap" ]
  /\ UNCHANGED << render_vars, brightness, refresh_interval_ns, double_buffering,
                  ops_left, call, anim >>

\* drawing task: display.swap_buffers()
DrawerSwap ==
  /\ sched.drawer = "swap"
  /\ IF double_buffering
       THEN /\ front_buffer' = FbSwap(front_buffer, back_buffer)[1]
            /\ back_buffer' = FbSwap(front_buffer, back_buffer)[2]
       ELSE UNCHANGED << front_buffer, back_buffer >>
  /\ op' = [ name |-> "swap_buffers", ok |-> TRUE ]
  /\ sched' = [ sched EXCEPT !.drawer = "unlock" ]
  /\ UNCHANGED << render_vars, brightness, refresh_interval_ns, double_buffering,
                  ops_left, call, anim >>

\* drawing task: the guard goes out of scope and Timer::after(..) starts
DrawerUnlock ==
  /\ sched.drawer = "unlock"
  /\ sched' = [ sched EXCEPT !.lock = "free", !.drawer = "sleep" ]
  /\ UNCHANGED << render_vars, front_buffer, back_buffer, brightness,
                  refresh_interval_ns, double_buffering, op, ops_left, call, anim >>

\* drawing task: Timer::after(..).await completes
DrawerWake ==
  /\ sched.drawer = "sleep"
  /\ ~RefresherReady
  /\ sched' = [ sched EXCEPT !.drawer = "lock" ]
  /\ UNCHANGED << render_vars, front_buffer, back_buffer, brightness,
                  refresh_interval_ns, double_buffering, op, ops_left, call, anim >>

\* the steps of the refresh task, and those of the drawing task
RefresherStep ==
  \/ RefresherLock
  \/ sched.refresher = "render" /\
       \/ \E okc \in 0 .. 1 : DisableOutput(okc)
       \/ \E okc \in 0 .. 3 : SetAddress(okc)
       \/ \E okc \in 0 .. 6 : SetRgb(okc)
       \/ \E okc \in 0 .. 2 : ClockPulse(okc)
       \/ \E okc \in 0 .. 2 : LatchPulse(okc)
       \/ \E okc \in 0 .. 1 : EnableOutput(okc)
       \/ \E checked \in BOOLEAN : Delay(checked)
       \/ DelayDone
       \/ \E okc \in 0 .. 1 : TrailingDisableOutput(okc)
  \/ RefresherUnlock
  \/ RefresherWake

DrawerStep ==
  \/ DrawerLock
  \/ DrawerClear
  \/ \E pixels \in PixelStreams : DrawerDraw(pixels)
  \/ DrawerSwap
  \/ DrawerUnlock
  \/ DrawerWake

InitShared ==
  /\ \E lvl \in BOOLEAN : InitEngine(RawPins(lvl, FALSE, FALSE), 0, 1, 0)
  /\ call = NoCall
  /\ sched = BeforeSpawn
  /\ anim = NoAnimation

NextShared ==
  \/ \E enabled \in BOOLEAN : MainSpawn(enabled)
  \/ RefresherLock
  \/ \E okc \in 0 .. 1 : DisableOutput(okc)
  \/ \E okc \in 0 .. 3 : SetAddress(okc)
  \/ \E okc \in 0 .. 6 : SetRgb(okc)
  \/ \E okc \in 0 .. 2 : ClockPulse(okc)
  \/ \E okc \in 0 .. 2 : LatchPulse(okc)
  \/ \E okc \in 0 .. 1 : EnableOutput(okc)
  \/ \E checked \in BOOLEAN : Delay(checked)
  \/ DelayDone
  \/ \E okc \in 0 .. 1 : TrailingDisableOutput(okc)
  \/ RefresherUnlock
  \/ RefresherWake
  \/ DrawerLock
  \/ DrawerClear
  \/ \E pixels \in PixelStreams : DrawerDraw(pixels)
  \/ DrawerSwap
  \/ DrawerUnlock
  \/ DrawerWake

\* the executor keeps polling a task that stays ready, and a timer that is
\* pending again and again expires
SpecShared ==
  /\ InitShared /\ [][NextShared]_vars
  /\ WF_vars(RefresherStep) /\ WF_vars(DrawerStep)
  /\ SF_vars(RefresherWake) /\ SF_vars(DrawerWake)

(***************************************************************************)
(* The cancellation specification: render_frame passes and the            *)
(* refresh_task loop, whose future may be dropped wherever it is           *)
(* suspended, with GPIO failures.                                          *)
(***************************************************************************)
InitCancel ==
  /\ \E lvl \in BOOLEAN : InitEngine(RawPins(lvl, FALSE, FALSE), 1, 1, MaxPasses)
  /\ call = NoCall
  /\ sched = Unshared
  /\ anim = NoAnimation

NextCancel ==
  \/ \E xy \in ProbePixels, color \in DrawColors : SetPixel(xy[1], xy[2], color)
  \/ RenderFrame
  \/ RefreshTask
  \/ RefreshLoop
  \/ RefreshDelay
  \/ RefreshDelayDone
  \/ \E okc \in 0 .. 1 : DisableOutput(okc)
  \/ \E okc \in 0 .. 3 : SetAddress(okc)
  \/ \E okc \in 0 .. 6 : SetRgb(okc)
  \/ \E okc \in 0 .. 2 : ClockPulse(okc)
  \/ \E okc \in 0 .. 2 : LatchPulse(okc)
  \/ \E okc \in 0 .. 1 : EnableOutput(okc)
  \/ \E checked \in BOOLEAN : Delay(checked)
  \/ DelayDone
  \/ Cancel
  \/ \E okc \in 0 .. 1 : TrailingDisableOutput(okc)

SpecCancel == InitCancel /\ [][NextCancel]_vars

(***************************************************************************)
(* The timing specification: the delays one pass requests, plane by plane, *)
(* as a function of base tick, brightness and build.                       *)
(***************************************************************************)
\* what line 307 is reached with for plane p: a panic, or the value slept
DelayOutcome(base, p, level, checked) ==
  LET d == ScaledDurationNs(base, p, level)
  IN  [ panic |-> d.overflow /\ checked,
        overflow |-> d.overflow,
        val |-> IF d.overflow /\ checked THEN << 0, 0 >> ELSE d.val ]

ScaledDurationCall(base, level, checked) ==
  /\ call.fn = "none"
  /\ call' = [ fn |-> "scaled_duration_ns",
               args |-> << base, level, checked >>,
               ret |-> [ p \in 0 .. MaxPlane |-> DelayOutcome(base, p, level, checked) ] ]
  /\ UNCHANGED engine_vars

\* base ticks: the smallest ones, the default, ticks around the largest one
\* whose product with 255 fits u32 (16 843 009), powers of two, and u32::MAX
TickSamples ==
  { U32(0), U32(1), U32(2), U32(3), U32(127), U32(255), U32(256), U32(1000),
    U32(DefaultRefreshIntervalNs), U32(1000000), U32(16843009), U32(16843010),
    << 2 ^ 11, 0 >>, << 2 ^ 15, 0 >>, << Limb - 1, Limb - 1 >> }

InitTiming ==
  /\ InitEngine(RawPins(FALSE, FALSE, FALSE), 0, 0, 0)
  /\ call = NoCall
  /\ sched = Unshared
  /\ anim = NoAnimation

NextTiming ==
  /\ call.fn = "none"
  /\ \E base \in TickSamples, level \in 0 .. 255, checked \in BOOLEAN :
       ScaledDurationCall(base, level, checked)

SpecTiming == InitTiming /\ [][NextTiming]_vars

(***************************************************************************)
(* The frame buffer specification: get_row_bit_plane on sample buffers.    *)
(***************************************************************************)
GetRowBitPlaneCall(fb, r, p) ==
  /\ call.fn = "none"
  /\ call' = [ fn |-> "get_row_bit_plane", args |-> << fb, r, p >>,
               ret |-> FbGetRowBitPlane(fb, r, p) ]
  /\ UNCHANGED engine_vars

SampleColors == { Red, Mixed, New(2, 1, 0) }

\* buffers with one and with two pixels set, and filled buffers
OnePixelBuffers ==
  { FbSetPixel(FbNew, x, y, c).fb : x \in Cols, y \in Rows, c \in SampleColors }

SampleBuffers ==
  { FbSetPixel(fb, x, y, c).fb : fb \in OnePixelBuffers, x \in Cols, y \in Rows,
                                  c \in SampleColors }
  \cup { FbFill(FbNew, c) : c \in SampleColors \cup { Black } }

InitFb ==
  /\ InitEngine(RawPins(FALSE, FALSE, FALSE), 0, 0, 0)
  /\ call = NoCall
  /\ sched = Unshared
  /\ anim = NoAnimation

NextFb ==
  /\ call.fn = "none"
  /\ \E fb \in SampleBuffers, r \in 0 .. HEIGHT, p \in 0 .. COLOR_BITS + 1 :
       GetRowBitPlaneCall(fb, r, p)

SpecFb == InitFb /\ [][NextFb]_vars

(***************************************************************************)
(* The animation controller (animation.rs): a data source, an effect and a *)
(* tick budget; the caller polls next(), which answers Wait, Apply(frame)  *)
(* or Done.  usize and u8 arithmetic that overflows panics in a build with *)
(* overflow checks and wraps in a build without them (checked says which). *)
(***************************************************************************)
Effects == { "None", "Slide", "Fade", "Wipe" }

\* AnimationEffect::total_steps
EffectTotalSteps(effect, frame_count) ==
  CASE effect = "None" -> frame_count
    [] effect = "Slide" -> frame_count * WIDTH
    [] effect = "Fade" -> frame_count * 16
    [] effect = "Wipe" -> frame_count * WIDTH

\* a frame could not be produced because an arithmetic overflow panicked
Panicked == [ ok |-> FALSE, val |-> << >>, err |-> "panic" ]

\* get_pixel(..).unwrap_or(Hub75Color::black())
GetPixelOrBlack(fb, x, y) ==
  LET g == FbGetPixel(fb, x, y) IN IF g.ok THEN g.val ELSE Black

\* Hub75FrameBuffer::new for a panel of the given width
FbNewWide(width) == [ y \in Rows |-> [ x \in 0 .. (width - 1) |-> Black ] ]

\* get_pixel(..).unwrap_or(Hub75Color::black()) on a panel of the given width
GetPixelOrBlackOn(width, fb, x, y) ==
  IF x >= width \/ y >= HEIGHT THEN Black ELSE fb[y][x]

\* a slide that shows black where the next frame should come in
ApplySlideEffectOn_NoNext(width, current_frame, next_frame, sequence) ==
  Ok([ y \in Rows |-> [ x \in 0 .. (width - 1) |->
         GetPixelOrBlackOn(width, current_frame, x + sequence, y) ] ])

\* apply_slide_effect::<width, HEIGHT, COLOR_BITS>; next_frame is << >> for None,
\* << frame >> for Some(frame)
ApplySlideEffectOn(width, current_frame, next_frame, sequence) ==
  LET next == IF next_frame = << >> THEN FbNewWide(width) ELSE next_frame[1]
  IN  Ok([ y \in Rows |-> [ x \in 0 .. (width - 1) |->
             IF x + sequence < width
               THEN GetPixelOrBlackOn(width, current_frame, x + sequence, y)
               ELSE GetPixelOrBlackOn(width, next, x + sequence - width, y) ] ])

\* a slide that moves the other way
ApplySlideEffect_Leftward(current_frame, next_frame, sequence) ==
  LET next == IF next_frame = << >> THEN FbNew ELSE next_frame[1]
  IN  Ok([ y \in Rows |-> [ x \in Cols |->
             IF x >= sequence
               THEN current_frame[y][x - sequence]
               ELSE next[y][x + WIDTH - sequence] ] ])

\* apply_slide_effect on the panel of the engine
ApplySlideEffect(current_frame, next_frame, sequence) ==
  ApplySlideEffectOn(WIDTH, current_frame, next_frame, sequence)

\* let fade_factor = if sequence < 8 { sequence } else { 15 - sequence }
FadeFactor(sequence) == IF sequence < 8 THEN sequence ELSE 15 - sequence

\* original.r * fade_factor as u8, a product of two u8, overflows u8
FadeOverflows(c, factor) == c.r * factor > 255 \/ c.g * factor > 255 \/ c.b * factor > 255

\* Hub75Color::<bits>::new((r * f) / 15, (g * f) / 15, (b * f) / 15) with wrapping
\* products
FadedColorOf(bits, c, factor) ==
  NewOf(bits, ((c.r * factor) % 256) \div 15, ((c.g * factor) % 256) \div 15,
        ((c.b * factor) % 256) \div 15)

\* the faded colour at the depth of the engine
FadedColor(c, factor) == FadedColorOf(COLOR_BITS, c, factor)

\* apply_fade_effect::<_, _, bits> on one pixel of the frame
FadePixel(bits, original, sequence, checked) ==
  IF checked /\ FadeOverflows(original, FadeFactor(sequence))
    THEN Panicked
    ELSE Ok(FadedColorOf(bits, original, FadeFactor(sequence)))

\* apply_fade_effect
ApplyFadeEffect(current_frame, sequence, checked) ==
  LET factor == FadeFactor(sequence)
  IN  IF checked /\ \E y \in Rows, x \in Cols : FadeOverflows(current_frame[y][x], factor)
        THEN Panicked
        ELSE Ok([ y \in Rows |-> [ x \in Cols |-> FadedColor(current_frame[y][x], factor) ] ])

\* a wipe that reveals one column less
ApplyWipeEffect_Exclusive(current_frame, sequence) ==
  Ok([ y \in Rows |-> [ x \in Cols |->
         IF x < sequence THEN current_frame[y][x] ELSE Black ] ])

\* apply_wipe_effect: the columns x <= sequence of the frame on black
ApplyWipeEffect(current_frame, sequence) ==
  Ok([ y \in Rows |-> [ x \in Cols |->
         IF x <= sequence THEN current_frame[y][x] ELSE Black ] ])

\* AnimationEffect::apply_effect
ApplyEffect(effect, current_frame, next_frame, progress, checked) ==
  CASE effect = "None" -> Ok(current_frame)
    [] effect = "Slide" -> ApplySlideEffect(current_frame, next_frame, progress)
    [] effect = "Fade" -> ApplyFadeEffect(current_frame, progress, checked)
    [] effect = "Wipe" -> ApplyWipeEffect(current_frame, progress)

\* AnimationData: [ kind |-> "Frames", frames ], [ kind |-> "RgbData", bytes ] or
\* [ kind |-> "Text", text ] with the text as its sequence of bytes
Frames(frames) == [ kind |-> "Frames", frames |-> frames ]
RgbData(bytes) == [ kind |-> "RgbData", bytes |-> bytes ]
Text(text) == [ kind |-> "Text", text |-> text ]

\* WIDTH * HEIGHT * 3
FrameSize == WIDTH * HEIGHT * 3

\* AnimationData::frame_count
DataFrameCount(data) ==
  CASE data.kind = "Frames" -> Len(data.frames)
    [] data.kind = "RgbData" -> Len(data.bytes) \div FrameSize
    [] data.kind = "Text" -> Len(data.text)

\* Hub75FrameBuffer::<width, height, COLOR_BITS>::from_rgb_data
FbFromRgbDataOn(width, height, bytes) ==
  IF Len(bytes) # width * height * 3
    THEN Err("InvalidColor")
    ELSE Ok([ y \in 0 .. (height - 1) |-> [ x \in 0 .. (width - 1) |->
                LET idx == (y * width + x) * 3
                IN  FromRgb8(bytes[idx + 1], bytes[idx + 2], bytes[idx + 3]) ] ])

\* Hub75FrameBuffer::from_rgb_data
FbFromRgbData(bytes) == FbFromRgbDataOn(WIDTH, HEIGHT, bytes)

\* capacity of the heapless::Vec that to_rgb_data returns
VecCapacity == 65536

\* Hub75FrameBuffer::<width, height, COLOR_BITS>::to_rgb_data: the channels of
\* the pixels pushed row by row; push(..).ok() drops a byte once the vector
\* holds VecCapacity of them
FbToRgbDataOn(width, height, fb) ==
  [ i \in 1 .. (IF width * height * 3 > VecCapacity THEN VecCapacity ELSE width * height * 3) |->
      LET pixel == (i - 1) \div 3
      IN  ToRgb8(fb[pixel \div width][pixel % width])[((i - 1) % 3) + 1] ]

\* the 5x5 glyph of a byte, one number per row (bit 4 is the left column)
GlyphPattern(char_byte) ==
  CASE char_byte = 65 -> << 14, 17, 17, 31, 17 >>
    [] char_byte = 66 -> << 30, 17, 30, 17, 30 >>
    [] char_byte = 67 -> << 15, 16, 16, 16, 15 >>
    [] OTHER -> << 31, 17, 17, 17, 31 >>

\* render_character_to_frame on a black frame: (WIDTH - 5) / 2 and (HEIGHT - 5) / 2
\* underflow usize on a panel smaller than the glyph; the wrapped start lies
\* beyond the panel, so no pixel is set
RenderCharacterToFrame(char_byte, checked) ==
  IF WIDTH < 5 \/ HEIGHT < 5
    THEN IF checked THEN Panicked ELSE Ok(FbNew)
    ELSE LET start_x == (WIDTH - 5) \div 2
             start_y == (HEIGHT - 5) \div 2
             pattern == GlyphPattern(char_byte)
             lit(x, y) ==
               /\ x >= start_x /\ x < start_x + 5
               /\ y >= start_y /\ y < start_y + 5
               /\ (pattern[y - start_y + 1] \div (2 ^ (4 - (x - start_x)))) % 2 = 1
         IN  Ok([ y \in Rows |-> [ x \in Cols |->
                    IF lit(x, y) THEN Color(MAX_VALUE, MAX_VALUE, MAX_VALUE) ELSE Black ] ])

\* a source that cannot produce its last frame
DataGetFrame_LastMissing(data, index, checked) ==
  IF index + 1 >= DataFrameCount(data) THEN Err("InvalidData") ELSE Ok(FbNew)

\* AnimationData::get_frame
DataGetFrame(data, index, checked) ==
  CASE data.kind = "Frames" ->
         IF index < Len(data.frames)
           THEN Ok(data.frames[index + 1])
           ELSE Err("InvalidData")
    [] data.kind = "RgbData" ->
         LET start == index * FrameSize
             end == start + FrameSize
         IN  IF end <= Len(data.bytes)
               THEN FbFromRgbData(SubSeq(data.bytes, start + 1, end))
               ELSE Err("InvalidData")
    [] data.kind = "Text" ->
         IF index < Len(data.text)
           THEN RenderCharacterToFrame(data.text[index + 1], checked)
           ELSE Err("InvalidData")

\* Animation::new: Err(InvalidData) for a source without frames; overflow_checks
\* is not a field of the struct but the build's setting, kept with the object
AnimationNew(data, effect, total_frames, checked) ==
  LET frame_count == DataFrameCount(data)
      total_steps == EffectTotalSteps(effect, frame_count)
  IN  IF frame_count = 0
        THEN [ state |-> "err", err |-> "InvalidData" ]
        ELSE [ state |-> "ready",
               data |-> data,
               frame_index |-> 0,
               sequence |-> 0,
               step |-> 0,
               total_steps |-> total_steps,
               effect |-> effect,
               frames_per_step |->
                 total_frames \div (IF total_steps > 1 THEN total_steps ELSE 1),
               frame_counter |-> 0,
               overflow_checks |-> checked ]

\* Animation::generate_current_frame
GenerateCurrentFrame(a, checked) ==
  LET current_frame == DataGetFrame(a.data, a.frame_index, checked)
      has_next == a.frame_index + 1 < DataFrameCount(a.data)
      next_frame == DataGetFrame(a.data, a.frame_index + 1, checked)
  IN  IF ~current_frame.ok
        THEN current_frame
        ELSE IF has_next /\ ~next_frame.ok
          THEN next_frame
          ELSE ApplyEffect(a.effect, current_frame.val,
                           IF has_next THEN << next_frame.val >> ELSE << >>,
                           a.sequence, checked)

\* the sequence of an effect runs 0 .. period - 1 within one frame
EffectPeriod(effect) == IF effect = "Fade" THEN 16 ELSE WIDTH

\* an advance_step whose sequence never wraps into the next frame
AdvanceStep_NoWrap(a) ==
  IF a.effect = "None"
    THEN [ a EXCEPT !.step = a.step + 1, !.frame_index = a.step + 1 ]
    ELSE [ a EXCEPT !.step = a.step + 1, !.sequence = a.sequence + 1 ]

\* Animation::advance_step
AdvanceStep(a) ==
  IF a.effect = "None"
    THEN [ a EXCEPT !.step = a.step + 1, !.frame_index = a.step + 1 ]
    ELSE IF a.sequence + 1 >= EffectPeriod(a.effect)
      THEN [ a EXCEPT !.step = a.step + 1, !.sequence = 0,
                      !.frame_index = a.frame_index + 1 ]
      ELSE [ a EXCEPT !.step = a.step + 1, !.sequence = a.sequence + 1 ]

\* Animation::is_done
IsDone(a) == a.step >= a.total_steps

\* Animation::next: the animation afterwards and the state returned
AnimationNextOf(a) ==
  IF a.step >= a.total_steps
    THEN [ anim |-> a, ret |-> << "Done" >> ]
    ELSE IF a.frame_counter + 1 < a.frames_per_step
      THEN [ anim |-> [ a EXCEPT !.frame_counter = a.frame_counter + 1 ],
             ret |-> << "Wait" >> ]
      ELSE LET b == [ a EXCEPT !.frame_counter = 0 ]
               frame == GenerateCurrentFrame(b, a.overflow_checks)
           IN  IF frame.ok
                 THEN [ anim |-> AdvanceStep(b), ret |-> << "Apply", frame.val >> ]
                 ELSE IF frame.err = "panic"
                   THEN [ anim |-> [ b EXCEPT !.state = "panicked" ],
                          ret |-> << "panic" >> ]
                   ELSE [ anim |-> b, ret |-> << "Done" >> ]

\* the Apply, Wait and Done results counted so far, after the result ret; the
\* fourth element is the tick budget the animation was constructed with
Tally(t, ret) ==
  << t[1] + (IF ret[1] = "Apply" THEN 1 ELSE 0),
     t[2] + (IF ret[1] = "Wait" THEN 1 ELSE 0),
     t[3] + (IF ret[1] = "Done" THEN 1 ELSE 0),
     t[4] >>

\* let animation = Animation::new(data, effect, total_frames)
AnimationNewCall(data, effect, total_frames, checked) ==
  /\ anim.state = "none"
  /\ anim' = AnimationNew(data, effect, total_frames, checked)
  /\ op' = [ name |-> "animation_new", ok |-> anim'.state = "ready",
             args |-> << 0, 0, 0, total_frames >> ]
  /\ call' = [ fn |-> "Animation::new", args |-> << data, effect, total_frames >>,
               ret |-> << >> ]
  /\ UNCHANGED << render_vars, front_buffer, back_buffer, brightness,
                  refresh_interval_ns, double_buffering, ops_left, sched >>

\* animation.next(), in the caller's polling loop; the caller polls at most
\* MaxDone times more once it was told Done
AnimationNext ==
  LET n == AnimationNextOf(anim)
  IN  /\ anim.state = "ready"
      /\ op.args[3] < MaxDone
      /\ anim' = n.anim
      /\ op' = [ name |-> "next", ok |-> n.ret[1] # "panic", args |-> Tally(op.args, n.ret) ]
      /\ call' = [ fn |-> "Animation::next", args |-> << >>, ret |-> n.ret ]
      /\ UNCHANGED << render_vars, front_buffer, back_buffer, brightness,
                      refresh_interval_ns, double_buffering, ops_left, sched >>

\* a reset that leaves the tick counter of the running step alone
AnimationReset_KeepCounter ==
  /\ anim.state = "ready"
  /\ anim' = [ anim EXCEPT !.frame_index = 0, !.sequence = 0, !.step = 0 ]
  /\ op' = [ name |-> "reset", ok |-> TRUE, args |-> << 0, 0, 0, op.args[4] >> ]
  /\ call' = [ fn |-> "Animation::reset",
               args |-> << anim.step, anim.frame_counter, op.args[3] >>, ret |-> << >> ]
  /\ UNCHANGED << render_vars, front_buffer, back_buffer, brightness,
                  refresh_interval_ns, double_buffering, ops_left, sched >>

\* animation.reset(): the caller starts over and counts the results afresh; the
\* call record keeps where the animation stood: its step, its frame_counter and
\* the number of Done results it had returned
AnimationReset ==
  /\ anim.state = "ready"
  /\ anim' = [ anim EXCEPT !.frame_index = 0, !.sequence = 0, !.step = 0,
                           !.frame_counter = 0 ]
  /\ op' = [ name |-> "reset", ok |-> TRUE, args |-> << 0, 0, 0, op.args[4] >> ]
  /\ call' = [ fn |-> "Animation::reset",
               args |-> << anim.step, anim.frame_counter, op.args[3] >>, ret |-> << >> ]
  /\ UNCHANGED << render_vars, front_buffer, back_buffer, brightness,
                  refresh_interval_ns, double_buffering, ops_left, sched >>

\* Hub75Color { r: 63, g: 63, b: 63 }: the white of a 6-bit panel, which a
\* shallower colour holds only when written through its public fields
Bright == Color(63, 63, 63)

\* tick budgets: none, fewer ticks than steps, a few ticks a step, and the 60
\* ticks of the repository's tests
TickBudgets == { 0, 1, 5, 60 }

\* frames an animation shows
AnimFrameSamples ==
  { FbNew, FbFill(FbNew, Red), FbSetPixel(FbNew, 0, 0, Mixed).fb,
    FbSetPixel(FbNew, WIDTH - 1, 0, Bright).fb }

\* slices of at most MaxAnimFrames frames, the empty one included
FrameSources ==
  { Frames(<< >>) }
  \cup { Frames(<< f >>) : f \in AnimFrameSamples }
  \cup { Frames(<< f, g >>) : f \in AnimFrameSamples, g \in AnimFrameSamples }

\* byte streams of one value: empty, short of a frame, whole frames, and whole
\* frames followed by a part of one
RgbSources ==
  { RgbData([ i \in 1 .. len |-> byte ]) :
      len \in { 0, FrameSize - 1, FrameSize, FrameSize + 1, MaxAnimFrames * FrameSize },
      byte \in { 0, 255 } }

\* the empty text, and texts of the glyphs "A", "C" and the default glyph; a
\* glyph takes a 5x5 panel
TextSources ==
  IF WIDTH < 5 \/ HEIGHT < 5
    THEN { Text(<< >>) }
    ELSE { Text(<< >>), Text(<< 65 >>), Text(<< 67, 122 >>) }

DataSources == FrameSources \cup RgbSources \cup TextSources

InitAnim ==
  /\ InitEngine(RawPins(FALSE, FALSE, FALSE), 0, 0, 0)
  /\ call = NoCall
  /\ sched = Unshared
  /\ anim = NoAnimation

NextAnim ==
  \/ \E data \in DataSources, effect \in Effects, total_frames \in TickBudgets,
        checked \in BOOLEAN :
       AnimationNewCall(data, effect, total_frames, checked)
  \/ AnimationNext
  \/ AnimationReset

SpecAnim == InitAnim /\ [][NextAnim]_vars

(***************************************************************************)
(* The slide specification: apply_slide_effect on panels of two columns or *)
(* more, up to MaxSlideWidth, at every sub-step, with and without a next   *)
(* frame.                                                                  *)
(***************************************************************************)
SlideCall(width, current_frame, next_frame, sequence) ==
  /\ call.fn = "none"
  /\ call' = [ fn |-> "apply_slide_effect",
               args |-> << width, current_frame, next_frame, sequence >>,
               ret |-> ApplySlideEffectOn(width, current_frame, next_frame, sequence) ]
  /\ UNCHANGED engine_vars

\* frames of the given width: black, of one colour, with one pixel set, and
\* with a different colour in every column and row (channels x % 4 and y % 4)
WideFrames(width, tag) ==
  { FbNewWide(width),
    [ y \in Rows |-> [ x \in 0 .. (width - 1) |-> New(tag, tag, 0) ] ],
    [ y \in Rows |-> [ x \in 0 .. (width - 1) |->
        IF x = width - 1 /\ y = 0 THEN New(0, tag, tag) ELSE Black ] ],
    [ y \in Rows |-> [ x \in 0 .. (width - 1) |-> New(tag, x % 4, y % 4) ] ] }

InitSlide ==
  /\ InitEngine(RawPins(FALSE, FALSE, FALSE), 0, 0, 0)
  /\ call = NoCall
  /\ sched = Unshared
  /\ anim = NoAnimation

NextSlide ==
  /\ call.fn = "none"
  /\ \E width \in 2 .. MaxSlideWidth :
       \E current_frame \in WideFrames(width, 1), sequence \in 0 .. (width - 1),
          next_frame \in { << >> } \cup { << f >> : f \in WideFrames(width, 2) } :
         SlideCall(width, current_frame, next_frame, sequence)

SpecSlide == InitSlide /\ [][NextSlide]_vars

(***************************************************************************)
(* The fade specification: apply_fade_effect on one pixel, for every       *)
(* colour depth up to MaxFadeBits, every level of the red channel at that  *)
(* depth (green at the maximum, blue at zero) and every sub-step.          *)
(***************************************************************************)
FadeCall(bits, original, sequence, checked) ==
  /\ call.fn = "none"
  /\ call' = [ fn |-> "apply_fade_effect", args |-> << bits, original, sequence, checked >>,
               ret |-> FadePixel(bits, original, sequence, checked) ]
  /\ UNCHANGED engine_vars

InitFade ==
  /\ InitEngine(RawPins(FALSE, FALSE, FALSE), 0, 0, 0)
  /\ call = NoCall
  /\ sched = Unshared
  /\ anim = NoAnimation

NextFade ==
  /\ call.fn = "none"
  /\ \E bits \in 1 .. MaxFadeBits :
       \E level \in 0 .. (2 ^ bits - 1), sequence \in 0 .. 15, checked \in BOOLEAN :
         FadeCall(bits, NewOf(bits, level, 2 ^ bits - 1, 0), sequence, checked)

SpecFade == InitFade /\ [][NextFade]_vars

(***************************************************************************)
(* The pixel access specification: set_pixel on a frame buffer, then       *)
(* get_pixel on the buffer it left, at coordinates inside the panel and    *)
(* one beyond it in either direction.                                      *)
(***************************************************************************)
\* buffer.set_pixel(x, y, c): ret is the buffer afterwards and the value returned
BufferSetPixelCall(fb, x, y, c) ==
  /\ call.fn = "none"
  /\ call' = [ fn |-> "set_pixel", args |-> << fb, x, y, c >>, ret |-> FbSetPixel(fb, x, y, c) ]
  /\ UNCHANGED engine_vars

\* buffer.get_pixel(x, y) on the buffer the set_pixel left; the arguments keep
\* the set_pixel call it follows
BufferGetPixelCall(x, y) ==
  /\ call.fn = "set_pixel"
  /\ call' = [ fn |-> "get_pixel", args |-> << call.ret.fb, x, y, call >>,
               ret |-> FbGetPixel(call.ret.fb, x, y) ]
  /\ UNCHANGED engine_vars

\* a black buffer, a red one and one with a single pixel set
PixelBuffers == { FbNew, FbFill(FbNew, Red), FbSetPixel(FbNew, WIDTH - 1, 0, Mixed).fb }

InitBuffer ==
  /\ InitEngine(RawPins(FALSE, FALSE, FALSE), 0, 0, 0)
  /\ call = NoCall
  /\ sched = Unshared
  /\ anim = NoAnimation

NextBuffer ==
  \/ \E fb \in PixelBuffers, x \in 0 .. WIDTH, y \in 0 .. HEIGHT, c \in SampleColors :
       BufferSetPixelCall(fb, x, y, c)
  \/ \E x \in 0 .. WIDTH, y \in 0 .. HEIGHT : BufferGetPixelCall(x, y)

SpecBuffer == InitBuffer /\ [][NextBuffer]_vars

(***************************************************************************)
(* The address specification: set_address on the pins of an engine, for    *)
(* each choice of the optional pins D and E and every row below            *)
(* max_addressable_rows, each write succeeding or the first okc only.      *)
(***************************************************************************)
\* pins.address.set_address(r) when the first okc writes succeed
SetAddressCall(r, okc) ==
  LET ws == SetAddressWrites(pins, r)
  IN  /\ r < MaxAddressableRows(pins)
      /\ okc <= Len(ws)
      /\ pins' = ApplyWrites(pins, ws, okc)
      /\ call' = [ fn |-> "set_address", args |-> << r, okc >>,
                   ret |-> IF okc = Len(ws) THEN Ok(<< >>) ELSE Err("PinError") ]
      /\ UNCHANGED << front_buffer, back_buffer, current_row, current_bit_plane,
                      brightness, refresh_interval_ns, double_buffering, pc,
                      bit_plane, row, bit_data, col, result, task, trace, op,
                      ops_left, fail_left, pass_left, frames_left, oe_note,
                      sched, anim >>

InitAddress ==
  /\ \E lvl \in BOOLEAN, d \in BOOLEAN, e \in BOOLEAN :
       InitEngine(RawPins(lvl, d, e), 0, 0, 0)
  /\ call = NoCall
  /\ sched = Unshared
  /\ anim = NoAnimation

NextAddress == \E r \in 0 .. 31, okc \in 0 .. 5 : SetAddressCall(r, okc)

SpecAddress == InitAddress /\ [][NextAddress]_vars

(***************************************************************************)
(* The draw-target specification: draw_iter of the engine in both          *)
(* buffering modes, over streams of up to two pixels that lie inside the   *)
(* panel, left of it, above it, right of it and below it.                  *)
(***************************************************************************)
\* pixels inside the panel (two of them at the same place) and outside it
StreamPixels ==
  { Pixel(0, 0, Rgb565(31, 0, 0)), Pixel(0, 0, Rgb565(0, 63, 0)),
    Pixel(WIDTH - 1, HEIGHT - 1, Rgb565(0, 32, 31)),
    Pixel(0 - 1, 0, Rgb565(31, 63, 31)), Pixel(0, 0 - 1, Rgb565(31, 63, 31)),
    Pixel(WIDTH, 0, Rgb565(31, 63, 31)), Pixel(0, HEIGHT, Rgb565(31, 63, 31)),
    Pixel(0 - 1, HEIGHT, Rgb565(16, 0, 0)) }

DrawStreams ==
  { << >> } \cup { << p >> : p \in StreamPixels }
            \cup { << p, q >> : p \in StreamPixels, q \in StreamPixels }

InitDrawIter ==
  /\ InitEngine(RawPins(FALSE, FALSE, FALSE), MaxDrawIterOps, 0, 0)
  /\ call = NoCall
  /\ sched = Unshared
  /\ anim = NoAnimation

NextDrawIter ==
  \/ \E enabled \in BOOLEAN : SetDoubleBuffering(enabled)
  \/ \E pixels \in DrawStreams : DrawIter(pixels)

SpecDrawIter == InitDrawIter /\ [][NextDrawIter]_vars

(***************************************************************************)
(* The RGB data specification: to_rgb_data and from_rgb_data on frame      *)
(* buffers of several dimensions, from_rgb_data on byte strings one short  *)
(* of, equal to and one beyond the frame size, and on what to_rgb_data     *)
(* returned.                                                               *)
(***************************************************************************)
\* buffer.to_rgb_data() on a width x height buffer
ToRgbDataCall(width, height, fb) ==
  /\ call.fn = "none"
  /\ call' = [ fn |-> "to_rgb_data", args |-> << width, height, fb >>,
               ret |-> FbToRgbDataOn(width, height, fb) ]
  /\ UNCHANGED engine_vars

\* Hub75FrameBuffer::<width, height, COLOR_BITS>::from_rgb_data(bytes); origin
\* is the buffer the bytes were taken from, if they were
FromRgbDataCall(width, height, bytes, origin) ==
  /\ call' = [ fn |-> "from_rgb_data", args |-> << width, height, bytes, origin >>,
               ret |-> FbFromRgbDataOn(width, height, bytes) ]
  /\ UNCHANGED engine_vars

\* panel sizes: three small ones and eight chained 64 x 64 panels
RgbPanels == { << 1, 1 >>, << 2, 1 >>, << 1, 2 >>, << 512, 64 >> }

\* the buffers of a panel size: every choice of sample colours on the small
\* ones, one colour throughout on the large one
BuffersOf(width, height) ==
  IF width * height <= 2
    THEN [ 0 .. (height - 1) -> [ 0 .. (width - 1) -> SampleColors ] ]
    ELSE { [ y \in 0 .. (height - 1) |-> [ x \in 0 .. (width - 1) |-> c ] ] : c \in SampleColors }

\* byte strings for a small panel: around the frame size in length
ByteStringsOf(width, height) ==
  UNION { [ 1 .. n -> IF n <= 4 THEN { 0, 63, 64, 255 } ELSE { 63, 200 } ] :
            n \in { width * height * 3 - 1, width * height * 3, width * height * 3 + 1 } }

InitRgb ==
  /\ InitEngine(RawPins(FALSE, FALSE, FALSE), 0, 0, 0)
  /\ call = NoCall
  /\ sched = Unshared
  /\ anim = NoAnimation

NextRgb ==
  \/ \E d \in RgbPanels : \E fb \in BuffersOf(d[1], d[2]) : ToRgbDataCall(d[1], d[2], fb)
  \/ \E d \in { p \in RgbPanels : p[1] * p[2] <= 2 } : \E bytes \in ByteStringsOf(d[1], d[2]) :
       call.fn = "none" /\ FromRgbDataCall(d[1], d[2], bytes, Err("none"))
  \/ /\ call.fn = "to_rgb_data"
     /\ FromRgbDataCall(call.args[1], call.args[2], call.ret, Ok(call.args[3]))

SpecRgb == InitRgb /\ [][NextRgb]_vars

(***************************************************************************)
(* The colour specification: new for every depth from 1 to 8 bits and      *)
(* every byte, and from_rgb8 followed by to_rgb8 and to_rgb8 followed by   *)
(* from_rgb8 for the depths below 8 bits.  The arguments of a call keep    *)
(* the call it follows.                                                    *)
(***************************************************************************)
\* Hub75Color::<bits>::new(r, g, b)
ColorNewCall(bits, r, g, b) ==
  /\ call' = [ fn |-> "new", args |-> << bits, r, g, b >>, ret |-> ColorNew(bits, r, g, b) ]
  /\ UNCHANGED engine_vars

\* Hub75Color::<bits>::from_rgb8(rgb.0, rgb.1, rgb.2)
FromRgb8Call(bits, rgb) ==
  /\ call' = [ fn |-> "from_rgb8", args |-> << bits, rgb, call >>,
               ret |-> FromRgb8Of(bits, rgb[1], rgb[2], rgb[3]) ]
  /\ UNCHANGED engine_vars

\* c.to_rgb8() for a Hub75Color::<bits>
ToRgb8Call(bits, c) ==
  /\ call' = [ fn |-> "to_rgb8", args |-> << bits, c, call >>, ret |-> ToRgb8Of(bits, c) ]
  /\ UNCHANGED engine_vars

\* the colours of a depth that have the red channel v: channels within the depth
ColorsWithin(bits) ==
  { Color(v, 2 ^ bits - 1 - v, 2 ^ bits - 1) : v \in 0 .. (2 ^ bits - 1) }

InitColor ==
  /\ InitEngine(RawPins(FALSE, FALSE, FALSE), 0, 0, 0)
  /\ call = NoCall
  /\ sched = Unshared
  /\ anim = NoAnimation

NextColor ==
  \/ /\ call.fn = "none"
     /\ \E bits \in 1 .. MaxColorBits, r \in 0 .. 255, g \in { 0, 255 } :
          ColorNewCall(bits, r, g, 2 ^ bits - 1)
  \/ /\ call.fn = "none"
     /\ \E bits \in 1 .. (MaxColorBits - 1), x \in 0 .. 255 :
          FromRgb8Call(bits, << x, x, x >>) \/ FromRgb8Call(bits, << x, 255 - x, 0 >>)
  \/ /\ call.fn = "none"
     /\ \E bits \in 1 .. (MaxColorBits - 1) : \E c \in ColorsWithin(bits) : ToRgb8Call(bits, c)
  \/ /\ call.fn = "from_rgb8" /\ call.args[3].fn = "none"
     /\ ToRgb8Call(call.args[1], call.ret)
  \/ /\ call.fn = "to_rgb8" /\ call.args[3].fn = "none"
     /\ FromRgb8Call(call.args[1], call.ret)

SpecColor == InitColor /\ [][NextColor]_vars

(***************************************************************************)
(* Brightness (display.rs): a record with the one field level (u8).        *)
(***************************************************************************)
BrightnessNew(level) == [ level |-> level ]

BrightnessLevel(b) == b.level

BrightnessDefault == [ level |-> DefaultBrightness ]

\* an addition that wraps around
BrightnessAdd_Wrapping(b, rhs) == [ level |-> (b.level + rhs) % 256 ]

\* Add<u8>: self.level.saturating_add(rhs)
BrightnessAdd(b, rhs) == [ level |-> IF b.level + rhs > 255 THEN 255 ELSE b.level + rhs ]

\* Sub<u8>: self.level.saturating_sub(rhs)
BrightnessSub(b, rhs) == [ level |-> IF b.level < rhs THEN 0 ELSE b.level - rhs ]

(***************************************************************************)
(* The brightness specification: a Brightness made by new, for every       *)
(* level, or by default, then read with level() or changed by + and - with *)
(* every u8.  The arguments of a call keep the call that made the value.   *)
(***************************************************************************)
BrightnessNewCall(level) ==
  /\ call.fn = "none"
  /\ call' = [ fn |-> "new", args |-> << level >>, ret |-> BrightnessNew(level) ]
  /\ UNCHANGED engine_vars

BrightnessDefaultCall ==
  /\ call.fn = "none"
  /\ call' = [ fn |-> "default", args |-> << >>, ret |-> BrightnessDefault ]
  /\ UNCHANGED engine_vars

BrightnessLevelCall ==
  /\ call.fn \in { "new", "default" }
  /\ call' = [ fn |-> "level", args |-> << call >>, ret |-> BrightnessLevel(call.ret) ]
  /\ UNCHANGED engine_vars

BrightnessAddCall(rhs) ==
  /\ call.fn \in { "new", "default" }
  /\ call' = [ fn |-> "add", args |-> << call.ret, rhs >>, ret |-> BrightnessAdd(call.ret, rhs) ]
  /\ UNCHANGED engine_vars

BrightnessSubCall(rhs) ==
  /\ call.fn \in { "new", "default" }
  /\ call' = [ fn |-> "sub", args |-> << call.ret, rhs >>, ret |-> BrightnessSub(call.ret, rhs) ]
  /\ UNCHANGED engine_vars

InitBrightness ==
  /\ InitEngine(RawPins(FALSE, FALSE, FALSE), 0, 0, 0)
  /\ call = NoCall
  /\ sched = Unshared
  /\ anim = NoAnimation

NextBrightness ==
  \/ \E level \in 0 .. 255 : BrightnessNewCall(level)
  \/ BrightnessDefaultCall
  \/ BrightnessLevelCall
  \/ \E rhs \in 0 .. 255 : BrightnessAddCall(rhs)
  \/ \E rhs \in 0 .. 255 : BrightnessSubCall(rhs)

SpecBrightness == InitBrightness /\ [][NextBrightness]_vars

(***************************************************************************)
(* The fill specification: a frame buffer is constructed, then changed by  *)
(* set_pixel, set_pixel_unchecked, fill and clear in any order.  The       *)
(* result of a call is the buffer it left; its arguments keep the number   *)
(* of calls made, the buffer before, the colour given, and the name and    *)
(* colour of the call before (set_pixel_unchecked adds its coordinates and *)
(* what became of the call).                                               *)
(***************************************************************************)
\* Hub75FrameBuffer::new()
FbNewCall ==
  /\ call.fn = "none"
  /\ call' = [ fn |-> "new", args |-> << 0, FbNew, Black, "none", Black >>, ret |-> FbNew ]
  /\ UNCHANGED engine_vars

\* a call on the buffer that leaves it as after
FbMutated(name, c, after) ==
  /\ call.fn # "none" /\ pc = "idle"
  /\ call.args[1] < MaxFillOps
  /\ call' = [ fn |-> name, args |-> << call.args[1] + 1, call.ret, c, call.fn, call.args[3] >>,
               ret |-> after ]
  /\ UNCHANGED engine_vars

\* buffer.set_pixel(x, y, c)
FbSetPixelCall(x, y, c) == FbMutated("set_pixel", c, FbSetPixel(call.ret, x, y, c).fb)

\* buffer.fill(c)
FbFillCall(c) == FbMutated("fill", c, FbFill(call.ret, c))

\* buffer.clear()
FbClearCall == FbMutated("clear", Black, FbClear(call.ret))

\* unsafe set_pixel_unchecked(x, y, color):
\* *self.pixels.get_unchecked_mut(y).get_unchecked_mut(x) = color.  Inside the
\* panel it writes the pixel.  Outside it the call is undefined behaviour, and
\* what happens depends on the build: with debug assertions the unsafe
\* precondition check aborts the process; without them the write goes to the
\* element y * WIDTH + x of the rows laid out one after the other, which is
\* another pixel of the buffer, or memory behind the buffer, where the write
\* passes unnoticed or ends the process.
FbSetPixelUnchecked(fb, x, y, c) ==
  LET flat == y * WIDTH + x
  IN  IF x < WIDTH /\ y < HEIGHT
        THEN { [ fb |-> [ fb EXCEPT ![y][x] = c ], outcome |-> "returned" ] }
        ELSE { [ fb |-> fb, outcome |-> "aborted" ] } \cup
             ( IF flat < WIDTH * HEIGHT
                 THEN { [ fb |-> [ fb EXCEPT ![flat \div WIDTH][flat % WIDTH] = c ],
                          outcome |-> "returned" ] }
                 ELSE { [ fb |-> fb, outcome |-> "wrote_outside" ] } )

\* a call of set_pixel_unchecked; an aborted process makes no further calls
FbSetPixelUncheckedCall(x, y, c) ==
  /\ call.fn # "none" /\ pc = "idle"
  /\ call.args[1] < MaxFillOps
  /\ \E o \in FbSetPixelUnchecked(call.ret, x, y, c) :
       /\ call' = [ fn |-> "set_pixel_unchecked",
                    args |-> << call.args[1] + 1, call.ret, c, call.fn, call.args[3],
                                x, y, o.outcome >>,
                    ret |-> o.fb ]
       /\ pc' = IF o.outcome = "aborted" THEN "panicked" ELSE "idle"
  /\ UNCHANGED << pins, front_buffer, back_buffer, current_row, current_bit_plane,
                  brightness, refresh_interval_ns, double_buffering, bit_plane, row,
                  bit_data, col, result, task, trace, op, ops_left, fail_left, pass_left,
                  frames_left, oe_note, sched, anim >>

InitFill ==
  /\ InitEngine(RawPins(FALSE, FALSE, FALSE), 0, 0, 0)
  /\ call = NoCall
  /\ sched = Unshared
  /\ anim = NoAnimation

NextFill ==
  \/ FbNewCall
  \/ \E x \in Cols, y \in Rows, c \in SampleColors : FbSetPixelCall(x, y, c)
  \/ \E x \in 0 .. (WIDTH + 1), y \in 0 .. HEIGHT, c \in { Red, Mixed } :
       FbSetPixelUncheckedCall(x, y, c)
  \/ \E c \in SampleColors \cup { Black } : FbFillCall(c)
  \/ FbClearCall

SpecFill == InitFill /\ [][NextFill]_vars

(***************************************************************************)
(* What a pass put on the wires, read off the trace                        *)
(***************************************************************************)
\* the trace of the render_frame call alone: refresh_task appends its pause
\* after the call has returned an error
PassTrace ==
  IF pc \in { "retry_sleeping", "refresh_loop" } /\ result # "Ok" THEN SubSeq(trace, 1, Len(trace) - 1) ELSE trace

\* the last operation called was a rendering one, so brightness and base tick
\* are still those of the traced pass
Rendering == op.name \in { "render_frame", "refresh_task", "display_frame" }

DataPins == { "r1", "g1", "b1", "r2", "g2", "b2" }

AddressPins == << "a", "b", "c" >> \o (IF pins.has_d THEN << "d" >> ELSE << >>)
                                   \o (IF pins.has_e THEN << "e" >> ELSE << >>)

\* number of writes and sleeps of one (plane, row) step, and of steps in a pass
StepLen == 1 + Len(AddressPins) + 8 * WIDTH + 5

Steps == COLOR_BITS * HalfHeight

\* kind and level of a trace entry; the level of a data write or a sleep is left open
Shape(e) ==
  [ kind |-> e.kind, level |-> IF e.kind \in DataPins \cup { "sleep" } THEN FALSE ELSE e.level ]

Sh(kind, level) == [ kind |-> kind, level |-> level ]

\* the k-th entry of a step on row r: OE high, the address lines = r, then per
\* column six data lines and a CLK pulse, a LAT pulse, OE low, a sleep, OE high
ExpectedInStep(r, k) ==
  LET na == Len(AddressPins)
      m == k - 2 - na
  IN  IF k = 1 THEN Sh("oe", TRUE)
      ELSE IF k <= 1 + na THEN Sh(AddressPins[k - 1], (r \div (2 ^ (k - 2))) % 2 = 1)
      ELSE IF m < 8 * WIDTH
        THEN IF m % 8 < 6 THEN Sh(<< "r1", "g1", "b1", "r2", "g2", "b2" >>[(m % 8) + 1], FALSE)
             ELSE Sh("clk", m % 8 = 6)
      ELSE << Sh("lat", TRUE), Sh("lat", FALSE), Sh("oe", FALSE), Sh("sleep", FALSE),
              Sh("oe", TRUE) >>[m - 8 * WIDTH + 1]

\* planes outermost in ascending order, rows inside: step s is plane s / (H/2),
\* row s mod (H/2)
PlaneOfEntry(i) == ((i - 1) \div StepLen) \div HalfHeight

RowOfEntry(i) == ((i - 1) \div StepLen) % HalfHeight

CountOf(t, kind, level) ==
  Cardinality({ i \in DOMAIN t : t[i].kind = kind /\ t[i].level = level })

\* C1: every pass issues, per (plane, row) step and in this order, OE high, the
\* address lines = row, WIDTH times (six data lines, CLK high, CLK low), LAT high,
\* LAT low, OE low, one sleep of the plane's delay, OE high; planes ascend
\* outermost with the rows inside; a pass that returns Ok has issued exactly
\* COLOR_BITS * (HEIGHT/2) * WIDTH clock pulses and COLOR_BITS * (HEIGHT/2)
\* latch pulses and sleeps.
C1_StepOrder ==
  Rendering =>
    /\ Len(PassTrace) <= Steps * StepLen
    /\ \A i \in DOMAIN PassTrace :
         /\ Shape(PassTrace[i]) = ExpectedInStep(RowOfEntry(i), ((i - 1) % StepLen) + 1)
         /\ PassTrace[i].kind = "sleep" =>
              PassTrace[i].ns =
                ScaledDurationNs(refresh_interval_ns, PlaneOfEntry(i), brightness).val
    /\ result = "Ok" =>
         /\ Len(PassTrace) = Steps * StepLen
         /\ CountOf(PassTrace, "clk", TRUE) = COLOR_BITS * HalfHeight * WIDTH
         /\ CountOf(PassTrace, "clk", FALSE) = COLOR_BITS * HalfHeight * WIDTH
         /\ CountOf(PassTrace, "lat", TRUE) = COLOR_BITS * HalfHeight
         /\ CountOf(PassTrace, "lat", FALSE) = COLOR_BITS * HalfHeight
         /\ CountOf(PassTrace, "sleep", FALSE) = COLOR_BITS * HalfHeight

\* a direct render_frame call has returned Ok after a full pass
C1_Witness ==
  /\ op.name = "render_frame" /\ pc = "idle" /\ result = "Ok"
  /\ Len(trace) = Steps * StepLen
  /\ trace[Len(trace)].kind = "oe"

\* what the step just taken appended to the trace
Appended ==
  IF Len(trace') > Len(trace) THEN SubSeq(trace', Len(trace) + 1, Len(trace')) ELSE << >>

\* C2: whenever a step of render_frame (called directly, by refresh_task or by
\* display_frame) writes an address line, a data line, CLK or LAT, OE is high
\* before and after the write, GPIO failures included.
C2_WritesWhileBlanked ==
  [][ (\E i \in DOMAIN Appended : Appended[i].kind \notin { "oe", "sleep" })
        => pins.oe /\ pins'.oe ]_vars

\* refresh_task is shifting data out after a write to OE has failed in the pass
C2_Witness ==
  /\ task = "refresh_task" /\ pc = "clock_pulse"
  /\ \E i \in DOMAIN trace : trace[i].kind = "oe" /\ ~trace[i].ok
  /\ trace[Len(trace)].kind \in DataPins

\* between a step's enable_output and its trailing disable_output: the delay is
\* being computed, or slept
InDelayPhase == pc \in { "delay", "sleeping", "trailing_disable" }

\* C8 (amended): OE is low only between a step's successful enable_output and its
\* trailing disable_output (for good if the delay computation panics there),
\* when the latest write to OE failed, or after a direct call of
\* render_bit_plane enabled the output; pin init leaves OE high.
C8_OutputEnabledOnlyInDelay ==
  ~pins.oe => InDelayPhase \/ pc = "panicked" \/ oe_note \in { "fault", "direct" }

\* render_frame has returned Ok with OE still low: the last trailing
\* disable_output failed and was ignored
C8_Witness ==
  /\ op.name = "render_frame" /\ pc = "idle" /\ result = "Ok"
  /\ ~pins.oe /\ oe_note = "fault"

\* C8 as stated: OE is low only inside a delay (a pass that died in the delay
\* computation is counted as inside it); at every other point of a pass and
\* whenever render_frame has returned, OE is high.
C8_Original ==
  ~pins.oe => InDelayPhase \/ pc = "panicked"


\* bit p of each channel of a colour, (channel >> p) & 1
ChannelBits(c, p) ==
  << (c.r \div (2 ^ p)) % 2 = 1, (c.g \div (2 ^ p)) % 2 = 1, (c.b \div (2 ^ p)) % 2 = 1 >>

\* the step the pass is in, read off the trace: steps completed so far (one sleep
\* each), hence plane and row, and the CLK pulses already issued in this step
StepsDone == CountOf(trace, "sleep", FALSE)

PlaneNow == StepsDone \div HalfHeight

RowNow == StepsDone % HalfHeight

ColumnNow == CountOf(trace, "clk", TRUE) - StepsDone * WIDTH

UpperLines == << pins.r1, pins.g1, pins.b1 >>

LowerLines == << pins.r2, pins.g2, pins.b2 >>

\* C3: at the x-th clock pulse of step (p, r) the lines R1,G1,B1 carry bit p of
\* the front-buffer pixel (x, r) and R2,G2,B2 bit p of the front-buffer pixel
\* (x, r + HEIGHT/2); with double buffering it is still the front buffer that
\* is shifted out, whatever the back buffer holds.
C3_FrontBufferShiftedOut ==
  [][ (Rendering /\ \E i \in DOMAIN Appended : Appended[i].kind = "clk" /\ Appended[i].level)
        => /\ ColumnNow \in Cols /\ PlaneNow < COLOR_BITS
           /\ UpperLines = ChannelBits(front_buffer[RowNow][ColumnNow], PlaneNow)
           /\ LowerLines = ChannelBits(front_buffer[RowNow + HalfHeight][ColumnNow], PlaneNow) ]_vars

\* a clock pulse is due with double buffering on, for a pixel whose red bit is set
\* in the back buffer only, with the back buffer's lit bit not on the lines
C3_Witness ==
  /\ Rendering /\ pc = "clock_pulse" /\ double_buffering
  /\ ChannelBits(back_buffer[RowNow][ColumnNow], PlaneNow)[1]
  /\ ~ChannelBits(front_buffer[RowNow][ColumnNow], PlaneNow)[1]
  /\ ~pins.r1


\* the step just taken is a call of one of the operations named
CallOf(names) == ops_left' = ops_left - 1 /\ op'.name \in names

\* C9: with double buffering on, swap_buffers exchanges the complete contents of
\* the front and back buffers (so a second swap restores both) and changes
\* nothing else; with double buffering off it leaves both buffers unchanged.
C9_SwapExchanges ==
  [][ CallOf({ "swap_buffers" }) =>
        /\ IF double_buffering
             THEN /\ front_buffer' = back_buffer /\ back_buffer' = front_buffer
                  /\ FbSwap(front_buffer', back_buffer') = << front_buffer, back_buffer >>
             ELSE front_buffer' = front_buffer /\ back_buffer' = back_buffer
        /\ UNCHANGED << pins, brightness, refresh_interval_ns, double_buffering,
                        current_row, current_bit_plane, pc, task >> ]_vars

\* swap_buffers has just published a drawn back buffer: the buffers differ and
\* the front one is no longer blank
C9_Witness ==
  /\ op.name = "swap_buffers" /\ double_buffering
  /\ front_buffer # back_buffer
  /\ front_buffer # FbNew

\* C10: with double buffering on, set_pixel, fill, clear and draw_iter leave the
\* front buffer as it is, and the front buffer changes only in a call of
\* swap_buffers or display_frame.
C10_FrontBufferPublishedOnly ==
  [][ double_buffering =>
        /\ CallOf({ "set_pixel", "fill", "clear", "draw_iter" }) => front_buffer' = front_buffer
        /\ front_buffer' # front_buffer => CallOf({ "swap_buffers", "display_frame" }) ]_vars

\* draw_iter has drawn into the back buffer while the front buffer is still blank
C10_Witness ==
  /\ op.name = "draw_iter" /\ double_buffering
  /\ back_buffer # FbNew
  /\ front_buffer = FbNew


\* C4: get_row_bit_plane(r, p) returns InvalidCoordinates when r >= HEIGHT/2,
\* InvalidColor when r < HEIGHT/2 and p >= COLOR_BITS, and otherwise exactly WIDTH
\* tuples, the x-th made of bit p of the channels of pixel (x, r) followed by bit
\* p of the channels of pixel (x, r + HEIGHT/2).
C4_RowBitPlane ==
  call.fn = "get_row_bit_plane" =>
    LET fb == call.args[1]
        r == call.args[2]
        p == call.args[3]
    IN  /\ r >= HalfHeight => ~call.ret.ok /\ call.ret.err = "InvalidCoordinates"
        /\ (r < HalfHeight /\ p >= COLOR_BITS) => ~call.ret.ok /\ call.ret.err = "InvalidColor"
        /\ (r < HalfHeight /\ p < COLOR_BITS) =>
             /\ call.ret.ok
             /\ Len(call.ret.val) = WIDTH
             /\ \A x \in Cols :
                  call.ret.val[x + 1] =
                    ChannelBits(fb[r][x], p) \o ChannelBits(fb[r + HalfHeight][x], p)

\* a call that returned a row in which one column has a set bit in its upper
\* pixel only and another column a set bit in its lower pixel only
C4_Witness ==
  /\ call.fn = "get_row_bit_plane" /\ call.ret.ok
  /\ \E x \in Cols : call.ret.val[x + 1][1] /\ ~call.ret.val[x + 1][4]
  /\ \E x \in Cols : call.ret.val[x + 1][5] /\ ~call.ret.val[x + 1][2]

\* floor(base * 2^p * level / 255) in unbounded arithmetic, as << high, low >>
\* with a 16-bit low limb and a high limb as large as it takes:
\* base = 255 k + m gives k * f + floor(m * f / 255) for f = 2^p * level
ExactFloor(base, p, level) ==
  LET k == DivU32(base, 255)
      m == ((base[1] % 255) * (Limb % 255) + base[2]) % 255
      f == (2 ^ p) * level
      lo == k[2] * f + (m * f) \div 255
  IN  << k[1] * f + lo \div Limb, lo % Limb >>

\* C5 as stated: for every base tick, every brightness and every plane the delay
\* requested is exactly floor(base * 2^p * brightness / 255).
C5_Original ==
  call.fn = "scaled_duration_ns" =>
    \A p \in 0 .. MaxPlane :
      /\ ~call.ret[p].panic
      /\ call.ret[p].val = ExactFloor(call.args[1], p, call.args[2])

\* where the products fit u32, the delay is that floor: the divergence is the
\* overflow of line 301 or 305 alone
ExactWhenProductsFit ==
  call.fn = "scaled_duration_ns" =>
    \A p \in 0 .. MaxPlane :
      ~call.ret[p].overflow =>
        ~call.ret[p].panic /\ call.ret[p].val = ExactFloor(call.args[1], p, call.args[2])

\* the default base tick and brightness
DefaultCall ==
  /\ call.fn = "scaled_duration_ns"
  /\ call.args[1] = U32(DefaultRefreshIntervalNs)
  /\ call.args[2] = DefaultBrightness

\* C6 (amended): with the default base tick of 100 000 ns and brightness 128 the
\* delays of planes 0..3 are 50 196, 100 392, 200 784 and 401 568 ns.
C6_DefaultDelays ==
  DefaultCall =>
    \A p \in 0 .. 3 :
      /\ ~call.ret[p].panic
      /\ call.ret[p].val = U32(<< 50196, 100392, 200784, 401568 >>[p + 1])

C6_Witness ==
  DefaultCall /\ call.ret[3].val = U32(401568) /\ call.ret[0].val = U32(50196)

\* C6 as stated: the delays are 50 000, 100 000, 200 000 and 400 000 ns.
C6_Original ==
  DefaultCall =>
    \A p \in 0 .. 3 :
      call.ret[p].val = U32(<< 50000, 100000, 200000, 400000 >>[p + 1])

\* v + 1 in u32
SuccU32(v) == IF v[2] + 1 = Limb THEN << (v[1] + 1) % Limb, 0 >> ELSE << v[1], v[2] + 1 >>

\* C7 (amended): when the products of plane p + 1 fit u32, its delay is twice
\* the delay of plane p, or one more than twice (each delay is rounded down).
C7_DoublingUpToRounding ==
  call.fn = "scaled_duration_ns" =>
    \A p \in 0 .. (MaxPlane - 1) :
      ~call.ret[p + 1].overflow =>
        call.ret[p + 1].val \in { MulU32(call.ret[p].val, 2).val,
                                  SuccU32(MulU32(call.ret[p].val, 2).val) }

\* a call in which a plane's delay is one more than twice the previous plane's
C7_Witness ==
  /\ call.fn = "scaled_duration_ns"
  /\ \E p \in 0 .. (MaxPlane - 1) :
       /\ ~call.ret[p + 1].overflow
       /\ call.ret[p].val # << 0, 0 >>
       /\ call.ret[p + 1].val = SuccU32(MulU32(call.ret[p].val, 2).val)

\* C7 as stated, for the products that fit u32: the delay of plane p + 1 is
\* exactly twice the delay of plane p.
C7_Original ==
  call.fn = "scaled_duration_ns" =>
    \A p \in 0 .. (MaxPlane - 1) :
      ~call.ret[p + 1].overflow =>
        call.ret[p + 1].val = MulU32(call.ret[p].val, 2).val


\* C11 as stated: get_pixel(x, y) called right after a successful
\* set_pixel(x, y, c) returns c, with double buffering on and off.
C11_Original ==
  [][ ( /\ op.name = "set_pixel" /\ op.ok
        /\ CallOf({ "get_pixel" })
        /\ call'.args = << op.args[1], op.args[2] >> )
      => call'.ret = Ok(op.args[3]) ]_vars


\* rows addressable with the address pins present: 8 with A, B, C alone, 16 with
\* one of D and E, 32 with both
RowsAddressable(raw) ==
  IF raw.has_d /\ raw.has_e THEN 32 ELSE IF raw.has_d \/ raw.has_e THEN 16 ELSE 8

\* C12: when pin init succeeds, new returns Err(InvalidCoordinates) if and only
\* if HEIGHT/2 exceeds 2^(number of address pins present); otherwise it returns
\* an engine with two all-black buffers, brightness 128, base tick 100 000 ns and
\* double buffering off.
C12_NewValidatesAddressing ==
  (call.fn = "new" /\ call.args[3] = Len(InitWrites(call.args[1]))) =>
    LET raw == call.args[1]
        height == call.args[2]
    IN  IF height \div 2 > RowsAddressable(raw)
          THEN call.ret = Err("InvalidCoordinates")
          ELSE /\ call.ret.ok
               /\ \A y \in 0 .. (height - 1) : \A x \in Cols :
                    /\ call.ret.val.front_buffer[y][x] = [ r |-> 0, g |-> 0, b |-> 0 ]
                    /\ call.ret.val.back_buffer[y][x] = [ r |-> 0, g |-> 0, b |-> 0 ]
               /\ DOMAIN call.ret.val.front_buffer = 0 .. (height - 1)
               /\ DOMAIN call.ret.val.back_buffer = 0 .. (height - 1)
               /\ call.ret.val.brightness = 128
               /\ call.ret.val.refresh_interval_ns = U32(100000)
               /\ ~call.ret.val.double_buffering

\* pins A, B, C only with HEIGHT = 32: construction failed
C12_Witness ==
  /\ call.fn = "new" /\ call.args[3] = Len(InitWrites(call.args[1]))
  /\ ~call.args[1].has_d /\ ~call.args[1].has_e /\ call.args[2] = 32
  /\ call.ret = Err("InvalidCoordinates")


\* the positions inside render_frame
RenderPcs ==
  { "disable_output", "set_address", "set_rgb", "clock_pulse", "latch_pulse",
    "enable_output", "delay", "sleeping", "trailing_disable" }

\* position of the i-th trace entry inside its step (StepLen for the trailing
\* disable_output)
PosInStep(i) == ((i - 1) % StepLen) + 1

\* the write the step just taken issued last failed, the ones before it succeeded
FailedLast(t) ==
  /\ t # << >>
  /\ ~t[Len(t)].ok
  /\ \A i \in 1 .. (Len(t) - 1) : t[i].ok

\* C13: a render_frame pass returns PinError at the first GPIO failure outside
\* the trailing disable_output, with that failed write the last thing it issued
\* (no further write or sleep) and buffers, brightness and base tick unchanged;
\* a failed trailing disable_output is ignored and the pass goes on with the next
\* row / plane, or returns Ok after the last one.
C13_FirstFailureAborts ==
  /\ [](Rendering =>
          /\ result \in { "none", "pending", "Ok", "PinError" }
          /\ \A i \in DOMAIN PassTrace :
               (~PassTrace[i].ok /\ PosInStep(i) # StepLen)
                 => i = Len(PassTrace) /\ result = "PinError"
          /\ result = "PinError" =>
               /\ pc \notin RenderPcs
               /\ FailedLast(SubSeq(PassTrace, Len(PassTrace), Len(PassTrace)))
               /\ PosInStep(Len(PassTrace)) # StepLen)
  /\ [][ (Rendering /\ pc \in RenderPcs) =>
           /\ UNCHANGED << front_buffer, back_buffer, brightness, refresh_interval_ns >>
           /\ (pc # "trailing_disable" /\ \E i \in DOMAIN Appended : ~Appended[i].ok) =>
                /\ result' = "PinError"
                /\ pc' \notin RenderPcs
                /\ FailedLast(Appended)
           /\ (pc # "trailing_disable" /\ \A i \in DOMAIN Appended : Appended[i].ok) =>
                result' # "PinError"
           /\ pc = "trailing_disable" =>
                LET s == bit_plane * HalfHeight + row + 1
                IN  IF s = Steps
                      THEN result' = "Ok" /\ pc' \notin RenderPcs
                      ELSE /\ result' = "pending" /\ pc' = "disable_output"
                           /\ bit_plane' = s \div HalfHeight /\ row' = s % HalfHeight ]_vars

\* a pass in which a trailing disable_output failed and was ignored, and which a
\* later failure of latch_pulse then aborted
C13_Witness ==
  /\ op.name = "render_frame" /\ pc = "idle" /\ result = "PinError"
  /\ trace[Len(trace)].kind = "lat" /\ ~trace[Len(trace)].ok
  /\ \E i \in 1 .. (Len(trace) - 1) : ~trace[i].ok /\ PosInStep(i) = StepLen


\* a new pass is at its first step: plane 0, row 0, nothing issued yet
PassAtStart ==
  pc = "disable_output" /\ bit_plane = 0 /\ row = 0 /\ trace = << >> /\ result = "pending"

\* C14: refresh_task never returns; a pass that returned Ok is followed at once
\* by the next pass, a pass that returned an error by one sleep of 1 000 000 ns
\* and then the next pass; every new pass starts at plane 0, row 0 and sets the
\* cursor to plane 0, row 0 in its first step, wherever the failed pass stopped.
C14_RefreshTaskRetries ==
  /\ [][ task = "refresh_task" =>
           /\ task' = "refresh_task" /\ pc' # "idle"
           /\ (pc \in RenderPcs /\ pc' \notin RenderPcs \cup { "panicked" }) =>
                \/ result' = "Ok" /\ pc' = "refresh_loop"
                \/ result' # "Ok" /\ pc' = "refresh_delay"
           /\ pc = "refresh_delay" =>
                /\ pc' = "retry_sleeping"
                /\ trace' = Append(trace, [ kind |-> "sleep", level |-> FALSE,
                                            ns |-> U32(1000000), ok |-> TRUE ])
                /\ UNCHANGED pins
           /\ pc = "retry_sleeping" =>
                pc' = "refresh_loop" /\ UNCHANGED << trace, pins >>
           /\ pc = "refresh_loop" => PassAtStart' /\ UNCHANGED pins
           /\ (pc = "disable_output" /\ trace = << >>) =>
                current_row' = 0 /\ current_bit_plane' = 0 ]_vars
  /\ (task = "refresh_task" /\ pc \in { "refresh_delay", "retry_sleeping" }) ~> PassAtStart
  /\ (task = "refresh_task" /\ pc = "refresh_loop") ~> PassAtStart

\* a new pass is starting after a pass that failed at a later row or plane: the
\* cursor still holds the place of the failure
C14_Witness ==
  /\ task = "refresh_task" /\ PassAtStart
  /\ fail_left < MaxFailures
  /\ current_row > 0 /\ current_bit_plane > 0


\* C15: with both tasks using the engine only while holding the lock, no step
\* taken between the first and the last GPIO operation of a render_frame pass
\* changes the front buffer (nor does a drawing step happen there at all), in
\* every interleaving of the two tasks.
C15_NoTearing ==
  [][ (sched.refresher = "render" /\ pc \in RenderPcs) =>
        /\ front_buffer' = front_buffer
        /\ sched'.lock = "refresher"
        /\ sched'.drawer = sched.drawer \/ sched'.drawer = "lock" ]_vars

\* a pass is under way on a frame the drawing task has published, while the
\* drawing task waits for the lock
C15_Witness ==
  /\ sched.refresher = "render" /\ pc = "clock_pulse"
  /\ sched.drawer = "lock"
  /\ double_buffering
  /\ front_buffer # FbNew
  /\ bit_plane > 0


\* the pass has issued everything of its current step up to and including the
\* sleep: OE high, the address, WIDTH columns each followed by a CLK pulse, the
\* LAT pulse and OE low
StepShiftedLatchedEnabled ==
  LET n == Len(trace)
      first == n - (StepLen - 1) + 1
  IN  /\ n > 0 /\ PosInStep(n) = StepLen - 1
      /\ \A i \in first .. n :
           /\ Shape(trace[i]) = ExpectedInStep(RowOfEntry(i), PosInStep(i))
           /\ trace[i].ok
      /\ CountOf(SubSeq(trace, first, n), "clk", TRUE) = WIDTH
      /\ CountOf(SubSeq(trace, first, n), "lat", TRUE) = 1
      /\ CountOf(SubSeq(trace, first, n), "sleep", FALSE) = 1
      /\ ~pins.clk /\ ~pins.lat /\ ~pins.oe

\* C16: render_frame is suspended only in the sleep of a step, after the row has
\* been fully shifted, latched and enabled, once in every step that gets that
\* far, and never between a step's disable_output and its enable_output; a pass
\* cancelled while suspended has issued whole rows only.  (The only other place
\* a future is dropped is refresh_task's own delay, after render_frame has
\* returned its error.)
C16_SuspendsOnlyInDelay ==
  /\ [](pc = "sleeping" => StepShiftedLatchedEnabled)
  /\ [][ /\ (result' = "cancelled" /\ result # "cancelled") =>
              \/ pc = "sleeping" /\ result = "pending" /\ StepShiftedLatchedEnabled'
              \/ pc = "retry_sleeping" /\ result = "PinError" /\ task = "refresh_task"
         /\ (pc' = "sleeping" /\ pc # "sleeping") =>
              /\ pc = "delay"
              /\ Len(Appended) = 1 /\ Appended[1].kind = "sleep"
         /\ pc = "delay" => pc' \in { "sleeping", "panicked" }
         /\ pc = "sleeping" => pc' \in { "trailing_disable", "idle" }
         /\ (pc = "enable_output" /\ result' = "pending") => pc' = "delay"
         /\ (pc \in RenderPcs \ { "delay", "sleeping" }) =>
              pc' \in (RenderPcs \ { "sleeping" })
                       \cup { "idle", "refresh_loop", "refresh_delay" } ]_vars

\* a pass was cancelled in the sleep of a later step: the panel is left showing
\* a whole row
C16_Witness ==
  /\ result = "cancelled" /\ pc = "idle"
  /\ Len(trace) > StepLen
  /\ StepShiftedLatchedEnabled
  /\ ~pins.oe


\* the refresh task's render_frame call has returned
PassReturned == sched.refresher = "render" /\ pc = "idle"

\* C17: with a sleep between the refresh task's passes, a drawing task waiting at
\* lock() eventually holds the lock, and the refresh task keeps completing
\* render_frame passes: from every point after the spawn another pass returns.
C17_NoStarvation ==
  /\ (sched.drawer = "lock") ~> (sched.lock = "drawer")
  /\ (sched.refresher \in { "lock", "render", "sleep" } /\ ~PassReturned) ~> PassReturned

\* the drawing task holds the lock again, after it has published a frame, while
\* the refresh task sleeps between two passes
C17_Witness ==
  /\ sched.lock = "drawer" /\ sched.drawer = "draw"
  /\ sched.refresher = "sleep" /\ result = "Ok"
  /\ double_buffering /\ front_buffer # FbNew


\* C18: display_frame(frame, ..) leaves frame in the front buffer in both modes;
\* with double buffering on, the back buffer then holds what was displayed
\* before, with it off the back buffer is untouched; and the front buffer is
\* frame during every pass display_frame renders.
C18_DisplayFramePublishes ==
  /\ [][ CallOf({ "display_frame" }) =>
           /\ front_buffer' = ProbeFrame
           /\ back_buffer' = (IF double_buffering THEN front_buffer ELSE back_buffer)
           /\ double_buffering' = double_buffering ]_vars
  /\ [](task = "display_frame" => front_buffer = ProbeFrame)

\* display_frame is shifting the frame out with double buffering on, and the back
\* buffer holds the picture that was displayed before
C18_Witness ==
  /\ task = "display_frame" /\ pc = "clock_pulse" /\ double_buffering
  /\ front_buffer = ProbeFrame
  /\ back_buffer # FbNew /\ back_buffer # ProbeFrame


\* a u32 as a number
NsOf(v) == v[1] * Limb + v[2]

\* the nanoseconds of the sleeps in a trace, added up
RECURSIVE SleptNs(_)
SleptNs(t) ==
  IF t = << >> THEN 0
  ELSE (IF Head(t).kind = "sleep" THEN NsOf(Head(t).ns) ELSE 0) + SleptNs(Tail(t))

\* C19 as stated: whenever display_frame returns Ok, the delays it requested
\* (those of its last pass, times the passes it made, every pass requesting the
\* same delays) add up to at least duration_ns.
C19_Original ==
  (op.name = "display_frame" /\ op.ok /\ pc = "idle" /\ task = "direct") =>
    op.args[2] * SleptNs(trace) >= NsOf(op.args[1])

(***************************************************************************)
(* C20: for a data source of n >= 1 frames and any tick budget, the next() *)
(* calls return exactly total_steps Apply results before the first Done,   *)
(* total_steps being n for None, n * WIDTH for Slide and Wipe and n * 16   *)
(* for Fade.  As a state predicate: once the polling has ended, by a Done  *)
(* or by a call that did not return, the Apply results number total_steps. *)
(***************************************************************************)
PollingEnded == op.args[3] > 0 \/ anim.state = "panicked"

C20_Original ==
  (anim.state \in { "ready", "panicked" } /\ PollingEnded) =>
    op.args[1] = EffectTotalSteps(anim.effect, DataFrameCount(anim.data))

(***************************************************************************)
(* C21: Done is sticky.  Once next() has returned Done since construction  *)
(* or the latest reset(), is_done() is true and every further next()       *)
(* returns Done; a freshly constructed animation is not done.              *)
(***************************************************************************)
DoneReturned == anim.state = "ready" /\ op.args[3] > 0

C21_DoneIsSticky ==
  /\ [](DoneReturned => IsDone(anim))
  /\ []((anim.state = "ready" /\ op.name = "animation_new") => ~IsDone(anim))
  /\ [][ (DoneReturned /\ call'.fn = "Animation::next" /\ op'.name = "next") =>
           (call'.ret = << "Done" >> /\ IsDone(anim')) ]_vars

\* a second Done in a row has been returned after all the steps were applied
C21_Witness ==
  /\ anim.state = "ready"
  /\ op.name = "next"
  /\ op.args[3] = 2
  /\ op.args[1] = anim.total_steps
  /\ anim.total_steps > 1

(***************************************************************************)
(* C22: with tick budget T and S = total_steps, next() answers Wait until  *)
(* floor(T / S) calls have accumulated since the previous Apply and Apply  *)
(* on the call that reaches that count: the k-th Apply is the answer to    *)
(* call number k * floor(T / S), and every Apply comes within the first T  *)
(* calls.                                                                  *)
(***************************************************************************)
C22_Original ==
  (anim.state = "ready" /\ op.name = "next" /\ call.ret[1] = "Apply") =>
    LET calls == op.args[1] + op.args[2]
    IN  /\ calls = op.args[1] * (op.args[4] \div anim.total_steps)
        /\ calls <= op.args[4]

(***************************************************************************)
(* C23: after reset(), called mid-animation, while waiting between steps   *)
(* or after Done, the next() results are those of a freshly constructed    *)
(* animation with the same data, effect and tick budget.                   *)
(***************************************************************************)
\* the results of the next n calls of next() on the animation a
RECURSIVE NextResults(_, _)
NextResults(a, n) ==
  IF n = 0 \/ a.state # "ready"
    THEN << >>
    ELSE LET r == AnimationNextOf(a) IN << r.ret >> \o NextResults(r.anim, n - 1)

\* calls that take an animation through all its steps and to its first Done
CallsToDone(a) ==
  a.total_steps * (IF a.frames_per_step > 1 THEN a.frames_per_step ELSE 1) + 1

C23_ResetRestarts ==
  (anim.state = "ready" /\ op.name = "reset") =>
    LET fresh == AnimationNew(anim.data, anim.effect, op.args[4], anim.overflow_checks)
    IN  NextResults(anim, CallsToDone(anim)) = NextResults(fresh, CallsToDone(fresh))

\* reset() was called between two steps of an animation that had applied a
\* step and was waiting for the next one
C23_Witness ==
  /\ anim.state = "ready"
  /\ op.name = "reset"
  /\ call.args[1] > 0
  /\ call.args[2] > 0
  /\ call.args[3] = 0

(***************************************************************************)
(* C24: with effect Slide, the Apply at sub-step s of frame k has pixel    *)
(* (x, y) equal to frame[k](x + s, y) where x + s < WIDTH and to           *)
(* frame[k+1](x + s - WIDTH, y) elsewhere, black when frame k is the last. *)
(***************************************************************************)
\* frame k of the source
SourceFrame(data, k) == DataGetFrame(data, k, FALSE).val

\* what step number step of a slide over the source shows
SlideExpected(data, step) ==
  LET k == step \div WIDTH
      s == step % WIDTH
  IN  [ y \in Rows |-> [ x \in Cols |->
          IF x + s < WIDTH
            THEN SourceFrame(data, k)[y][x + s]
            ELSE IF k + 1 < DataFrameCount(data)
              THEN SourceFrame(data, k + 1)[y][x + s - WIDTH]
              ELSE Black ] ]

C24_SlideFormula ==
  [][ (anim.state = "ready" /\ anim.effect = "Slide" /\ op'.name = "next" /\
       call'.ret[1] = "Apply") =>
        call'.ret[2] = SlideExpected(anim.data, anim.step) ]_vars

\* the last sub-step of the first of two frames was applied: the left column
\* comes from the first frame, the next one from the second frame
C24_Witness ==
  /\ anim.state = "ready" /\ anim.effect = "Slide"
  /\ op.name = "next" /\ call.ret[1] = "Apply"
  /\ anim.step = WIDTH
  /\ call.ret[2][0][0] = Red
  /\ call.ret[2][0][1] = Mixed

(***************************************************************************)
(* C25, as stated: with effect Slide the output at sub-step 0 equals       *)
(* frame[k], and at sub-step WIDTH - 1 its leftmost WIDTH - 1 columns are  *)
(* columns of frame[k], shifted, and its rightmost column is column 0 of   *)
(* frame[k+1].                                                             *)
(***************************************************************************)
SlideCalled == call.fn = "apply_slide_effect"
SlideWidth == call.args[1]
SlideCurrent == call.args[2]
SlideNext == IF call.args[3] = << >> THEN FbNewWide(SlideWidth) ELSE call.args[3][1]
SlideSequence == call.args[4]
SlideOutput == call.ret.val

C25_Original ==
  SlideCalled =>
    /\ call.ret.ok
    /\ SlideSequence = 0 => SlideOutput = SlideCurrent
    /\ SlideSequence = SlideWidth - 1 =>
         /\ \E d \in 0 .. 1 : \A y \in Rows, x \in 0 .. (SlideWidth - 2) :
              SlideOutput[y][x] = SlideCurrent[y][x + d]
         /\ \A y \in Rows : SlideOutput[y][SlideWidth - 1] = SlideNext[y][0]

(***************************************************************************)
(* C25, amended: the output at sub-step 0 equals frame[k]; at sub-step     *)
(* WIDTH - 1 its leftmost column is the last column of frame[k] and its    *)
(* columns 1 .. WIDTH - 1 are columns 0 .. WIDTH - 2 of frame[k+1] (black  *)
(* when frame k is the last frame).                                        *)
(***************************************************************************)
C25_SlideBoundary ==
  SlideCalled =>
    /\ call.ret.ok
    /\ SlideSequence = 0 => SlideOutput = SlideCurrent
    /\ SlideSequence = SlideWidth - 1 =>
         \A y \in Rows :
           /\ SlideOutput[y][0] = SlideCurrent[y][SlideWidth - 1]
           /\ \A x \in 1 .. (SlideWidth - 1) : SlideOutput[y][x] = SlideNext[y][x - 1]

\* the last sub-step on a panel of three or more columns, between two frames
\* whose columns all differ
C25_Witness ==
  /\ SlideCalled
  /\ SlideWidth >= 3
  /\ SlideSequence = SlideWidth - 1
  /\ call.args[3] # << >>
  /\ SlideOutput[1][0] = New(1, (SlideWidth - 1) % 4, 1)
  /\ SlideOutput[1][1] = New(2, 0, 1)
  /\ SlideOutput[1][SlideWidth - 1] = New(2, (SlideWidth - 2) % 4, 1)

(***************************************************************************)
(* C26: with effect Fade, the Apply at sub-step s (0 <= s < 16) has every  *)
(* channel equal to floor(channel * alpha / 15), alpha being s for s < 8   *)
(* and 15 - s otherwise, for every channel value of the colour depth.      *)
(***************************************************************************)
FadeAlpha(s) == IF s < 8 THEN s ELSE 15 - s

C26_Original ==
  call.fn = "apply_fade_effect" =>
    LET c == call.args[2]
        alpha == FadeAlpha(call.args[3])
    IN  /\ call.ret.ok
        /\ call.ret.val = Color((c.r * alpha) \div 15, (c.g * alpha) \div 15,
                                (c.b * alpha) \div 15)

(***************************************************************************)
(* C27: with effect Wipe, the Apply at sub-step s of frame k equals frame  *)
(* k in columns 0 .. s and is black in columns s + 1 .. WIDTH - 1; at      *)
(* s = WIDTH - 1 it equals frame k.                                        *)
(***************************************************************************)
WipeExpected(data, step) ==
  LET k == step \div WIDTH
      s == step % WIDTH
  IN  [ y \in Rows |-> [ x \in Cols |->
          IF x <= s THEN SourceFrame(data, k)[y][x] ELSE Black ] ]

C27_WipeReveals ==
  [][ (anim.state = "ready" /\ anim.effect = "Wipe" /\ op'.name = "next" /\
       call'.ret[1] = "Apply") =>
        /\ call'.ret[2] = WipeExpected(anim.data, anim.step)
        /\ anim.step % WIDTH = WIDTH - 1 =>
             call'.ret[2] = SourceFrame(anim.data, anim.step \div WIDTH) ]_vars

\* the first sub-step of a wipe over a red frame: column 0 red, the rest black
C27_Witness ==
  /\ anim.state = "ready" /\ anim.effect = "Wipe"
  /\ op.name = "next" /\ call.ret[1] = "Apply"
  /\ anim.step = 1
  /\ SourceFrame(anim.data, 0) = FbFill(FbNew, Red)
  /\ call.ret[2][0][0] = Red
  /\ \A x \in 1 .. (WIDTH - 1) : call.ret[2][0][x] = Black

(***************************************************************************)
(* C28: Animation::new fails with AnimationError::TooFast, and constructs  *)
(* no animation, whenever the tick budget divided by total_steps is zero.  *)
(***************************************************************************)
NewCalled == call.fn = "Animation::new"
NewData == call.args[1]
NewEffect == call.args[2]
NewTotalFrames == call.args[3]

C28_Original ==
  (/\ NewCalled
   /\ DataFrameCount(NewData) >= 1
   /\ NewTotalFrames < EffectTotalSteps(NewEffect, DataFrameCount(NewData))) =>
    (anim.state = "err" /\ anim.err = "TooFast")

(***************************************************************************)
(* C29: Animation::new fails with AnimationError::InvalidData when the     *)
(* source is empty (no frames, empty text, fewer bytes than one frame) or  *)
(* misaligned (a byte stream whose length is not a multiple of the frame   *)
(* size); every animation it constructs has total_steps >= frame_count     *)
(* >= 1.                                                                   *)
(***************************************************************************)
Misaligned(data) == data.kind = "RgbData" /\ Len(data.bytes) % FrameSize # 0

C29_Original ==
  NewCalled =>
    /\ (DataFrameCount(NewData) = 0 \/ Misaligned(NewData)) =>
         (anim.state = "err" /\ anim.err = "InvalidData")
    /\ anim.state = "ready" =>
         (anim.total_steps >= DataFrameCount(anim.data) /\ DataFrameCount(anim.data) >= 1)

(***************************************************************************)
(* C30: set_pixel and get_pixel of a frame buffer return                   *)
(* InvalidCoordinates when x >= WIDTH or y >= HEIGHT and leave the buffer  *)
(* unchanged; for x < WIDTH and y < HEIGHT, set_pixel(x, y, c) followed by *)
(* get_pixel(x, y) returns c, and no other pixel changes.                  *)
(***************************************************************************)
OutOfPanel(x, y) == x >= WIDTH \/ y >= HEIGHT

\* what a set_pixel call (a call record) did
SetPixelAsClaimed(set) ==
  LET fb == set.args[1]
      x == set.args[2]
      y == set.args[3]
      c == set.args[4]
  IN  IF OutOfPanel(x, y)
        THEN set.ret.ret = Err("InvalidCoordinates") /\ set.ret.fb = fb
        ELSE /\ set.ret.ret.ok
             /\ set.ret.fb[y][x] = c
             /\ \A y2 \in Rows, x2 \in Cols :
                  (x2 # x \/ y2 # y) => set.ret.fb[y2][x2] = fb[y2][x2]

C30_PixelBounds ==
  /\ call.fn = "set_pixel" => SetPixelAsClaimed(call)
  /\ call.fn = "get_pixel" =>
       LET x == call.args[2]
           y == call.args[3]
           set == call.args[4]
       IN  /\ OutOfPanel(x, y) => call.ret = Err("InvalidCoordinates")
           /\ ~OutOfPanel(x, y) => call.ret.ok
           /\ (~OutOfPanel(x, y) /\ x = set.args[2] /\ y = set.args[3]) =>
                call.ret = Ok(set.args[4])
           /\ (~OutOfPanel(x, y) /\ (x # set.args[2] \/ y # set.args[3])) =>
                call.ret = Ok(set.args[1][y][x])

\* a pixel of a red buffer was set to another colour and read back
C30_Witness ==
  /\ call.fn = "get_pixel"
  /\ call.args[4].args[1] = FbFill(FbNew, Red)
  /\ call.args[4].args[2] = WIDTH - 1 /\ call.args[4].args[3] = HEIGHT - 1
  /\ call.args[2] = WIDTH - 1 /\ call.args[3] = HEIGHT - 1
  /\ call.ret = Ok(Mixed)

(***************************************************************************)
(* C31: set_address(row) drives A, B, C to bits 0, 1, 2 of row and D and E *)
(* (when present) to bits 3 and 4, max_addressable_rows is 2^(address      *)
(* lines present), and hence any two distinct rows below                   *)
(* max_addressable_rows produce distinct address-line states.              *)
(***************************************************************************)
AddressLines(p) == << p.a, p.b, p.c, p.d, p.e >>

SetAddressDone == call.fn = "set_address" /\ call.ret.ok

\* the lines carry the bits of the row, and the limit is the power of two
AddressBitsDriven ==
  SetAddressDone =>
    /\ pins.a = ((call.args[1] \div 1) % 2 = 1)
    /\ pins.b = ((call.args[1] \div 2) % 2 = 1)
    /\ pins.c = ((call.args[1] \div 4) % 2 = 1)
    /\ pins.has_d => pins.d = ((call.args[1] \div 8) % 2 = 1)
    /\ pins.has_e => pins.e = ((call.args[1] \div 16) % 2 = 1)
    /\ MaxAddressableRows(pins) =
         2 ^ (3 + (IF pins.has_d THEN 1 ELSE 0) + (IF pins.has_e THEN 1 ELSE 0))

\* two successful set_address calls in a row, for distinct rows
DistinctRowsInARow ==
  /\ SetAddressDone /\ call'.fn = "set_address" /\ call'.ret.ok
  /\ call.args[1] # call'.args[1]

C31_Original ==
  [][ /\ AddressBitsDriven'
      /\ DistinctRowsInARow => AddressLines(pins) # AddressLines(pins') ]_vars

\* the same, for the wirings in which E is present only together with D
C31_DistinctWhenContiguous ==
  [][ /\ AddressBitsDriven'
      /\ (DistinctRowsInARow /\ (pins.has_e => pins.has_d)) =>
           AddressLines(pins) # AddressLines(pins') ]_vars

(***************************************************************************)
(* C32: draw_iter of the engine drops every pixel whose coordinates are    *)
(* outside 0 <= x < WIDTH, 0 <= y < HEIGHT (negative ones included): it    *)
(* returns Ok, leaves the buffers unchanged for such pixels, and writes    *)
(* every in-bounds pixel of the stream to the back buffer (the front       *)
(* buffer when double buffering is off).                                   *)
(***************************************************************************)
\* a draw_iter call is the step being taken
DrawIterStep == op'.name = "draw_iter" /\ ops_left' = ops_left - 1

\* positions of the stream that name pixel (x, y)
HitsAt(pixels, x, y) == { i \in 1 .. Len(pixels) : pixels[i].x = x /\ pixels[i].y = y }

LastOf(hits) == CHOOSE i \in hits : \A j \in hits : j <= i

\* the buffer after the stream: each pixel of the panel holds the colour of the
\* last stream entry that names it, or what it held before
DrawnOver(fb, pixels) ==
  [ y \in Rows |-> [ x \in Cols |->
      IF HitsAt(pixels, x, y) = { }
        THEN fb[y][x]
        ELSE FromRgb565(pixels[LastOf(HitsAt(pixels, x, y))].color) ] ]

C32_DrawIterDropsOutside ==
  [][ DrawIterStep =>
        /\ op'.ok
        /\ double_buffering' = double_buffering
        /\ IF double_buffering
             THEN /\ back_buffer' = DrawnOver(back_buffer, op'.args[1])
                  /\ front_buffer' = front_buffer
             ELSE /\ front_buffer' = DrawnOver(front_buffer, op'.args[1])
                  /\ back_buffer' = back_buffer ]_vars

\* with double buffering on, a stream of a pixel left of the panel and a pixel
\* in its last corner was drawn: the corner is set in the back buffer
C32_Witness ==
  /\ op.name = "draw_iter" /\ op.ok /\ double_buffering
  /\ op.args[1] = << Pixel(0 - 1, 0, Rgb565(31, 63, 31)),
                     Pixel(WIDTH - 1, HEIGHT - 1, Rgb565(0, 32, 31)) >>
  /\ back_buffer = [ FbNew EXCEPT ![HEIGHT - 1][WIDTH - 1] = FromRgb565(Rgb565(0, 32, 31)) ]
  /\ back_buffer # FbNew
  /\ front_buffer = FbNew

(***************************************************************************)
(* C33: from_rgb_data fails with InvalidColor unless given exactly         *)
(* W*H*3 bytes, and otherwise sets pixel (x, y) from the three bytes at    *)
(* offset 3*(y*W + x) through the 8-bit scaling rule; to_rgb_data returns  *)
(* exactly W*H*3 bytes and from_rgb_data(to_rgb_data(fb)) = fb for every   *)
(* frame buffer, whatever its dimensions.                                  *)
(***************************************************************************)
\* the 8-bit scaling rule: the top COLOR_BITS bits of the byte
Scaled8(byte) == byte \div (2 ^ (8 - COLOR_BITS))

FromRgbDataAsClaimed ==
  call.fn = "from_rgb_data" =>
    LET width == call.args[1]
        height == call.args[2]
        bytes == call.args[3]
    IN  IF Len(bytes) # width * height * 3
          THEN call.ret = Err("InvalidColor")
          ELSE /\ call.ret.ok
               /\ \A y \in 0 .. (height - 1), x \in 0 .. (width - 1) :
                    call.ret.val[y][x] =
                      [ r |-> Scaled8(bytes[3 * (y * width + x) + 1]),
                        g |-> Scaled8(bytes[3 * (y * width + x) + 2]),
                        b |-> Scaled8(bytes[3 * (y * width + x) + 3]) ]

ToRgbDataInverts ==
  /\ call.fn = "to_rgb_data" => Len(call.ret) = call.args[1] * call.args[2] * 3
  /\ (call.fn = "from_rgb_data" /\ call.args[4].ok) => call.ret = Ok(call.args[4].val)

C33_Original == FromRgbDataAsClaimed /\ ToRgbDataInverts

\* the same for the buffers whose W*H*3 bytes fit the returned vector
C33_WhenDataFits ==
  /\ FromRgbDataAsClaimed
  /\ (call.fn # "none" /\ call.args[1] * call.args[2] * 3 <= VecCapacity) => ToRgbDataInverts

(***************************************************************************)
(* C34: for every colour depth BITS in 1..8 and all 8-bit inputs (r, g, b) *)
(* Color::new saturates each channel at MAX = 2^BITS - 1: every channel of *)
(* the result equals min(input, MAX) and is therefore <= MAX.              *)
(***************************************************************************)
MinOf(a, b) == IF a < b THEN a ELSE b

NewSaturates ==
  /\ call.ret.ok
  /\ call.ret.val.r = MinOf(call.args[2], 2 ^ call.args[1] - 1)
  /\ call.ret.val.g = MinOf(call.args[3], 2 ^ call.args[1] - 1)
  /\ call.ret.val.b = MinOf(call.args[4], 2 ^ call.args[1] - 1)
  /\ call.ret.val.r <= 2 ^ call.args[1] - 1
  /\ call.ret.val.g <= 2 ^ call.args[1] - 1
  /\ call.ret.val.b <= 2 ^ call.args[1] - 1

C34_Original == call.fn = "new" => NewSaturates

\* the same for the depths of 1 to 7 bits
C34_SaturatesBelow8 == (call.fn = "new" /\ call.args[1] < 8) => NewSaturates

(***************************************************************************)
(* C35: for BITS < 8 and every byte x, from_rgb8(x, x, x).to_rgb8()        *)
(* returns x with its low 8 - BITS bits cleared in each channel, and for   *)
(* every colour c whose channels are <= MAX, from_rgb8 applied to          *)
(* to_rgb8(c) returns c.                                                   *)
(***************************************************************************)
\* x with its low n bits cleared
LowBitsCleared(x, n) == x - (x % (2 ^ n))

C35_Rgb8RoundTrip ==
  /\ (call.fn = "to_rgb8" /\ call.args[3].fn = "from_rgb8") =>
       \A i \in 1 .. 3 :
         call.ret[i] = LowBitsCleared(call.args[3].args[2][i], 8 - call.args[1])
  /\ (call.fn = "from_rgb8" /\ call.args[3].fn = "to_rgb8") =>
       call.ret = call.args[3].args[2]

\* 6 bits: 255 came back as 252, and a colour with channels 21, 42, 63 came back
\* unchanged through its 8-bit form 84, 168, 252
C35_Witness ==
  \/ /\ call.fn = "to_rgb8" /\ call.args[1] = 6
     /\ call.args[3].fn = "from_rgb8" /\ call.args[3].args[2] = << 255, 255, 255 >>
     /\ call.ret = << 252, 252, 252 >>
  \/ /\ call.fn = "from_rgb8" /\ call.args[1] = 6
     /\ call.args[2] = << 84, 168, 252 >>
     /\ call.args[3].fn = "to_rgb8"
     /\ call.ret = Color(21, 42, 63)

(***************************************************************************)
(* C36: Brightness + n and Brightness - n saturate at 255 and 0 for every  *)
(* level and every u8 n (250 + 20 gives 255, 10 - 20 gives 0),             *)
(* Brightness::new(l).level() = l, and the default level is 128.           *)
(***************************************************************************)
C36_BrightnessSaturates ==
  /\ call.fn = "add" =>
       call.ret.level = MinOf(call.args[1].level + call.args[2], 255)
  /\ call.fn = "sub" =>
       /\ call.args[1].level >= call.args[2] =>
            call.ret.level + call.args[2] = call.args[1].level
       /\ call.args[1].level < call.args[2] => call.ret.level = 0
  /\ (call.fn = "level" /\ call.args[1].fn = "new") => call.ret = call.args[1].args[1]
  /\ call.fn = "default" => call.ret.level = 128
  /\ (call.fn = "add" /\ call.args[1].level = 250 /\ call.args[2] = 20) => call.ret.level = 255
  /\ (call.fn = "sub" /\ call.args[1].level = 10 /\ call.args[2] = 20) => call.ret.level = 0

\* 250 + 20 was computed and gave 255
C36_Witness ==
  /\ call.fn = "add" /\ call.args[1] = BrightnessNew(250) /\ call.args[2] = 20
  /\ call.ret = BrightnessNew(255)

(***************************************************************************)
(* C37: a new frame buffer is all black; fill(c) sets every pixel to c and *)
(* is idempotent (fill(c); fill(c) leaves the same buffer as fill(c));     *)
(* clear() leaves every pixel black.                                       *)
(***************************************************************************)
AllPixels(fb, c) == \A y \in Rows, x \in Cols : fb[y][x] = c

C37_FillAndClear ==
  /\ call.fn = "new" => AllPixels(call.ret, [ r |-> 0, g |-> 0, b |-> 0 ])
  /\ call.fn = "fill" => AllPixels(call.ret, call.args[3])
  /\ (call.fn = "fill" /\ call.args[4] = "fill" /\ call.args[5] = call.args[3]) =>
       call.ret = call.args[2]
  /\ call.fn = "clear" => AllPixels(call.ret, [ r |-> 0, g |-> 0, b |-> 0 ])

\* a buffer with a pixel set was filled twice with another colour
C37_Witness ==
  /\ call.fn = "fill" /\ call.args[4] = "fill" /\ call.args[5] = call.args[3]
  /\ call.args[1] = 3
  /\ call.args[3] = Mixed
  /\ call.ret = call.args[2]
  /\ AllPixels(call.ret, Mixed)

(***************************************************************************)
(* C38: whenever render_bit_plane runs inside render_frame the cursor      *)
(* satisfies current_row < HEIGHT/2 and current_bit_plane < COLOR_BITS, so *)
(* render_frame (and hence display_frame) can fail only with PinError:     *)
(* InvalidCoordinates, InvalidColor and BufferOverflow are unreachable.    *)
(***************************************************************************)
\* render_bit_plane has set its cursor and not yet returned
InRenderBitPlane ==
  pc \in { "set_address", "set_rgb", "clock_pulse", "latch_pulse", "enable_output" }

C38_OnlyPinErrors ==
  /\ (InRenderBitPlane /\ ~Direct) =>
       /\ current_row < HEIGHT \div 2
       /\ current_bit_plane < COLOR_BITS
       /\ FbGetRowBitPlane(front_buffer, current_row, current_bit_plane).ok
  /\ Rendering => result \in { "none", "pending", "Ok", "PinError" }
  /\ Rendering => result \notin { "InvalidCoordinates", "InvalidColor", "BufferOverflow" }

\* a render_frame that got to the last row of the last plane and failed there
C38_Witness ==
  /\ op.name = "render_frame" /\ pc = "idle"
  /\ result = "PinError"
  /\ current_row = HEIGHT \div 2 - 1
  /\ current_bit_plane = COLOR_BITS - 1

(***************************************************************************)
(* C39: in every reachable state of an Animation, step <= total_steps,     *)
(* frame_counter < max(frames_per_step, 1), and the position counters      *)
(* agree with step: for None frame_index = step and sequence = 0; for      *)
(* Slide and Wipe step = frame_index * WIDTH + sequence with               *)
(* sequence < WIDTH; for Fade step = frame_index * 16 + sequence with      *)
(* sequence < 16; hence frame_index < frame_count whenever a frame is      *)
(* generated, and next() never reaches its internal-error branch.          *)
(***************************************************************************)
Constructed == anim.state \in { "ready", "panicked" }

\* generate_current_frame would hand next() an error
FrameError ==
  LET frame == GenerateCurrentFrame(anim, anim.overflow_checks)
  IN  ~frame.ok /\ frame.err # "panic"

C39_CountersAgree ==
  Constructed =>
    /\ anim.step <= anim.total_steps
    /\ anim.frame_counter < (IF anim.frames_per_step > 1 THEN anim.frames_per_step ELSE 1)
    /\ anim.effect = "None" => anim.frame_index = anim.step /\ anim.sequence = 0
    /\ anim.effect \in { "Slide", "Wipe" } =>
         /\ anim.step = anim.frame_index * WIDTH + anim.sequence
         /\ anim.sequence < WIDTH
    /\ anim.effect = "Fade" =>
         /\ anim.step = anim.frame_index * 16 + anim.sequence
         /\ anim.sequence < 16
    /\ anim.step < anim.total_steps =>
         /\ anim.frame_index < DataFrameCount(anim.data)
         /\ ~FrameError
    /\ (call.fn = "Animation::next" /\ call.ret[1] = "Done") =>
         anim.step >= anim.total_steps

\* a slide over two frames that is one sub-step into its second frame
C39_Witness ==
  /\ anim.state = "ready" /\ anim.effect = "Slide"
  /\ DataFrameCount(anim.data) = 2
  /\ anim.frame_index = 1 /\ anim.sequence = 1
  /\ anim.step = WIDTH + 1
  /\ call.fn = "Animation::next" /\ call.ret[1] = "Apply"

(***************************************************************************)
(* C40: for every duration_ns, base tick and colour depth, display_frame   *)
(* terminates after performing exactly                                     *)
(* max(1, floor(duration_ns / (base_tick * 2^(COLOR_BITS-1)))) complete    *)
(* render_frame passes when no GPIO operation fails, and stops at the      *)
(* first pass that fails, returning that pass's error.                     *)
(***************************************************************************)
DisplayFrameReturned == op.name = "display_frame" /\ pc = "idle" /\ task = "direct"

\* the number of passes of the claim; a product of 2^32 or more exceeds every
\* u32 duration, so the quotient is 0
ClaimedPasses ==
  LET fits == ~MulU32(refresh_interval_ns, 2 ^ (COLOR_BITS - 1)).overflow
      quotient == IF fits
                    THEN NsOf(op.args[1]) \div (NsOf(refresh_interval_ns) * 2 ^ (COLOR_BITS - 1))
                    ELSE 0
  IN  IF quotient > 1 THEN quotient ELSE 1

PassesAsClaimed ==
  /\ (DisplayFrameReturned /\ op.ok) => op.args[2] = ClaimedPasses
  /\ (DisplayFrameReturned /\ ~op.ok) =>
       /\ result = "PinError"
       /\ op.args[2] >= 1 /\ op.args[2] <= ClaimedPasses

C40_Original ==
  /\ op.name = "display_frame" => pc # "panicked"
  /\ PassesAsClaimed

\* the same without the requirement that the call comes back
C40_PassesWhenReturned == PassesAsClaimed

====
